---- MODULE Spec2Model ----
(***************************************************************************)
(* Execution model of the j-perm engine: Engine.apply, Pipeline.run and    *)
(* the operation handlers set / assert / $raise / $break / $continue /     *)
(* foreach / while / if / try, over a heap of documents and metadata       *)
(* dictionaries.  Python objects are heap cells: a context holds           *)
(* references (addresses) to its source, its dest and its metadata, so     *)
(* that in-place mutation, rebinding of an attribute and copy.deepcopy are *)
(* three different things, as they are in the source.                      *)
(***************************************************************************)
EXTENDS Integers, Sequences, FiniteSets, TLC

VARIABLES heap, metas, ctxs, stack, exc, pc, spec, callerSource, callerDest, result, ev,
          functions, callStacks, executed, vp

vars == <<heap, metas, ctxs, stack, exc, pc, spec, callerSource, callerDest, result, ev,
          functions, callStacks, executed, vp>>

-----------------------------------------------------------------------------
(* Bounds and engine configuration                                         *)

\* longest foreach input of a generated program is MaxForeachItems + 1
MaxForeachItems == 2

MaxLoopIterations == 2

MaxOperations == 14

MaxFunctionRecursionDepth == 2

FuncNames == {"f", "g"}

Keys == {"a", "b", "p", "q"}

\* a document is a flat object; value 0 stands for "key absent"
EmptyDoc == [k \in Keys |-> 0]

SourceAddr == 1

DestAddr == 2

-----------------------------------------------------------------------------
(* Exceptions and signals                                                  *)

NoExc == [kind |-> "none", type |-> "", msg |-> 0]

JPermError(m) == [kind |-> "error", type |-> "JPermError", msg |-> m]

OperationLimitError == [kind |-> "error", type |-> "RuntimeError", msg |-> 90]

LoopLimitError == [kind |-> "error", type |-> "RuntimeError", msg |-> 91]

ForeachSizeError == [kind |-> "error", type |-> "ValueError", msg |-> 92]

BreakSignal == [kind |-> "break", type |-> "BreakSignal", msg |-> 0]

ContinueSignal == [kind |-> "continue", type |-> "ContinueSignal", msg |-> 0]

\* ReturnSignal(value): msg carries the value
ReturnSignal(v) == [kind |-> "return", type |-> "ReturnSignal", msg |-> v]

FuncUndefinedError == [kind |-> "error", type |-> "ValueError", msg |-> 93]

RecursionDepthError == [kind |-> "error", type |-> "RecursionError", msg |-> 94]

\* ControlFlowSignal(Exception): the signals are Python Exceptions too
IsControlFlowSignal(e) == e.kind \in {"break", "continue", "return"}

IsException(e) == e.kind \in {"error", "break", "continue", "return"}

-----------------------------------------------------------------------------
(* Steps (after stage expansion) and the generated programs                *)

NoCond == [t |-> "lit", k |-> "", v |-> 0, b |-> FALSE]

Step(op) == [op |-> op, k |-> "", v |-> 0, n |-> 0, cond |-> NoCond, dw |-> FALSE,
             do |-> <<>>, els |-> <<>>, hasExcept |-> FALSE, exc |-> <<>>,
             hasFinally |-> FALSE, fin |-> <<>>, f |-> "", mode |-> "",
             hasFail |-> FALSE, fail |-> <<>>]

\* {"op": "set", "path": "/k", "value": v}
SetOp(k, v) == [Step("set") EXCEPT !.k = k, !.v = v]

\* {"$raise": m}
RaiseOp(m) == [Step("raise") EXCEPT !.v = m]

\* {"$break": null}
BreakOp == Step("break")

\* {"$continue": null}
ContinueOp == Step("continue")

\* {"op": "assert", "path": <root of the source document>, "return": true}
AssertRetOp == Step("assert")

\* {"op": "foreach", "in": "/missing", "default": [1..n], "do": body}
ForeachOp(n, body) == [Step("foreach") EXCEPT !.n = n, !.do = body]

\* {"op": "while", <cond>, "do": body, "do_while": dw}
WhileOp(c, body, dw) == [Step("while") EXCEPT !.cond = c, !.do = body, !.dw = dw]

\* {"op": "if", <cond>, "then": th, "else": el}
IfOp(c, th, el) == [Step("if") EXCEPT !.cond = c, !.do = th, !.els = el]

\* {"op": "try", "do": body, "except": e, "finally": f}
TryOp(body, hasE, e, hasF, f) == [Step("try") EXCEPT !.do = body, !.hasExcept = hasE, !.exc = e,
                                                    !.hasFinally = hasF, !.fin = f]

\* {"$def": f, "body": body, "on_failure": fail, "context": mode}, without params and "return"
DefOp(f, body, hasFail, fail, mode) == [Step("def") EXCEPT !.f = f, !.do = body, !.hasFail = hasFail,
                                                           !.fail = fail, !.mode = mode]

\* {"$func": f}
CallOp(f) == [Step("func") EXCEPT !.f = f]

\* {"$return": v}
ReturnOp(v) == [Step("return") EXCEPT !.v = v]

\* "cond": true / false
Lit(b) == [NoCond EXCEPT !.t = "lit", !.b = b]

\* "path": "@:/k", "equals": v
Eq(k, v) == [NoCond EXCEPT !.t = "eq", !.k = k, !.v = v]

\* "path": "@:/k", "exists": true
Exists(k) == [NoCond EXCEPT !.t = "exists", !.k = k]

LeafBlocks == { <<SetOp("a", 1)>>,
                <<SetOp("a", 1), SetOp("p", 2)>>,
                <<SetOp("a", 1), RaiseOp(1), SetOp("b", 2)>>,
                <<SetOp("a", 1), BreakOp, SetOp("b", 2)>>,
                <<SetOp("a", 1), ContinueOp, SetOp("b", 2)>>,
                <<AssertRetOp, SetOp("a", 1)>> }

ExceptBlocks == { <<SetOp("b", 1)>>, <<SetOp("b", 1), RaiseOp(2)>> }

FinallyBlocks == { <<SetOp("a", 2)>>, <<SetOp("a", 2), RaiseOp(3)>> }

TryOver(body) == { TryOp(body, FALSE, <<>>, FALSE, <<>>) }
                 \cup { TryOp(body, TRUE, e, FALSE, <<>>) : e \in ExceptBlocks }
                 \cup { TryOp(body, FALSE, <<>>, TRUE, f) : f \in FinallyBlocks }
                 \cup { TryOp(body, TRUE, e, TRUE, f) : e \in ExceptBlocks, f \in FinallyBlocks }

LoopConds == { Eq("p", 1), Exists("p") }

Compound1 == { ForeachOp(n, b) : n \in 0..(MaxForeachItems + 1), b \in LeafBlocks }
             \cup { WhileOp(c, b, FALSE) : c \in LoopConds, b \in LeafBlocks }
             \cup { WhileOp(Lit(FALSE), b, TRUE) : b \in LeafBlocks }
             \cup { IfOp(Eq("p", 1), b, <<>>) : b \in LeafBlocks }
             \cup { IfOp(Eq("p", 2), <<>>, b) : b \in LeafBlocks }
             \cup UNION { TryOver(b) : b \in LeafBlocks }

MidBlock(c) == <<SetOp("q", 1), c, SetOp("q", 2)>>

Compound2 == { ForeachOp(2, MidBlock(c)) : c \in Compound1 }
             \cup { WhileOp(Eq("q", 0), MidBlock(c), TRUE) : c \in Compound1 }
             \cup { IfOp(Lit(TRUE), MidBlock(c), <<>>) : c \in Compound1 }
             \cup UNION { TryOver(MidBlock(c)) : c \in Compound1 }

\* a while loop that leaves after exactly two iterations of its body
Toggle == IfOp(Eq("a", 1), <<SetOp("p", 2)>>, <<SetOp("a", 1)>>)

TwoPassWhile == WhileOp(Eq("p", 1), <<Toggle>>, FALSE)

ControlPrograms == { <<SetOp("p", 1), c, SetOp("b", 1)>> : c \in Compound1 \cup Compound2 \cup {TwoPassWhile} }

Returning == <<SetOp("a", 1), ReturnOp(7), SetOp("b", 2)>>

FuncBodies == { <<SetOp("a", 1)>>,
                Returning,
                <<SetOp("a", 1), RaiseOp(1)>>,
                <<SetOp("a", 1), BreakOp>>,
                <<SetOp("a", 1), ContinueOp>>,
                <<SetOp("a", 1), CallOp("f")>>,
                <<SetOp("a", 1), CallOp("g")>>,
                <<ForeachOp(2, Returning), SetOp("q", 2)>>,
                <<WhileOp(Lit(TRUE), Returning, FALSE), SetOp("q", 2)>>,
                <<IfOp(Lit(TRUE), Returning, <<>>), SetOp("q", 2)>>,
                <<TryOp(Returning, FALSE, <<>>, TRUE, <<SetOp("q", 1)>>), SetOp("q", 2)>>,
                <<TryOp(Returning, TRUE, <<SetOp("q", 1)>>, FALSE, <<>>), SetOp("q", 2)>> }

FailBlocks == { <<SetOp("q", 3)>>, <<SetOp("q", 3), RaiseOp(2)>> }

Modes == {"copy", "new", "shared"}

Defs == { DefOp("f", b, FALSE, <<>>, m) : b \in FuncBodies, m \in Modes }
        \cup { DefOp("f", b, TRUE, fl, m) : b \in FuncBodies, fl \in FailBlocks, m \in Modes }

\* call sites: at top level, in a loop body, in a try with except, after a redefinition
CallSites(d) == { <<SetOp("p", 1), d, CallOp("f"), SetOp("b", 1)>>,
                  <<d, ForeachOp(2, <<CallOp("f"), SetOp("q", 1)>>), SetOp("b", 1)>>,
                  <<d, TryOp(<<CallOp("f"), SetOp("p", 2)>>, TRUE, <<SetOp("b", 3)>>, FALSE, <<>>),
                    SetOp("b", 1)>>,
                  <<d, DefOp("f", <<SetOp("p", 3)>>, FALSE, <<>>, "copy"), CallOp("f")>> }

FuncPrograms == UNION { CallSites(d) : d \in Defs }

Programs == ControlPrograms \cup FuncPrograms

CallerDocs == { EmptyDoc, [EmptyDoc EXCEPT !["a"] = 2, !["q"] = 1] }

-----------------------------------------------------------------------------
(* Heap, contexts and frames                                               *)

\* ExecutionContext: references to the source, dest and metadata objects
Ctx(s, d, m, item) == [source |-> s, dest |-> d, meta |-> m, item |-> item]

\* foreach: extended = {"_": ctx.source, var: elem}, a new dict for every element;
\* none of its two entries is one of Keys
Extended(h) == Append(h, EmptyDoc)

\* a metadata dict: _operation_count, the error fields of try/except, and references
\* to the __functions__ dict, the _function_call_stack list and _current_call_ctx
\* (0: key absent)
Meta(count, err) == [count |-> count, err |-> err, funcs |-> 0, cstack |-> 0, callctx |-> 0]

\* the closure DefHandler stores: the step and the context $def ran in
Closure(st, c) == [def |-> st, defctx |-> c]

NoFn == Closure(Step("none"), 0)

Frame(kind, c) == [kind |-> kind, ctx |-> c, steps |-> <<>>, pc |-> 1, step |-> Step("none"),
                   child |-> c, snap |-> 0, entry |-> EmptyDoc, i |-> 0, dw |-> FALSE,
                   phase |-> "", saved |-> NoExc, oldmeta |-> 0, finRuns |-> 0,
                   fn |-> NoFn, oldcall |-> 0, cs |-> 0, before |-> [depth |-> 0, callctx |-> 0]]

\* Pipeline.run(steps, ctx) about to dispatch steps[1]
RunFrame(c, steps) == [Frame("run", c) EXCEPT !.steps = steps]

Top == stack[Len(stack)]

Below == stack[Len(stack) - 1]

Pop(s) == SubSeq(s, 1, Len(s) - 1)

DestDoc(c) == heap[ctxs[c].dest]

\* copy.deepcopy(doc): a fresh heap cell with the same content
DeepCopy(h, a) == Append(h, h[a])

Fresh(h) == Len(h) + 1

\* the pipeline is about to dispatch a step
AtStep == /\ pc = "running"
          /\ exc = NoExc
          /\ Top.kind = "run"
          /\ Top.pc <= Len(Top.steps)

CurStep == Top.steps[Top.pc]

\* Pipeline.run finished its last step and returns to its caller
RunDone == /\ pc = "running"
           /\ exc = NoExc
           /\ Top.kind = "run"
           /\ Top.pc > Len(Top.steps)
           /\ Len(stack) > 1

\* an exception reached the frame of a handler of this kind
Unwinding(kind) == /\ pc = "running"
                   /\ IsException(exc)
                   /\ Top.kind = kind

\* ctx.metadata['_operation_count'] += 1, in place in the dict ctx.metadata refers to
Counted(c) == [metas EXCEPT ![ctxs[c].meta].count = @ + 1]

WithinBudget(c) == metas[ctxs[c].meta].count + 1 <= MaxOperations

\* the pipeline assigns ctx.dest = <handler result> and moves to the next step
Advance(s) == [s EXCEPT ![Len(s)].pc = @ + 1]

NoEvent == [t |-> "none"]

\* no process_value call is under way
NoValueRun == [status |-> "idle"]

-----------------------------------------------------------------------------
(* Engine.apply                                                            *)

Init == /\ spec \in Programs
        /\ callerSource \in {EmptyDoc}
        /\ callerDest \in CallerDocs
        /\ heap = <<callerSource, callerDest>>
        /\ metas = <<>>
        /\ ctxs = <<>>
        /\ stack = <<>>
        /\ exc = NoExc
        /\ pc = "init"
        /\ result = 0
        /\ ev = NoEvent
        /\ functions = <<>>
        /\ callStacks = <<>>
        /\ executed = 0
        /\ vp = NoValueRun

\* ctx.source = _tuples_to_lists(source): every container is rebuilt
NormalisedSource(h, callerAddr) == Append(h, h[callerAddr])

\* variant: the context works on the caller's dest object itself
ApplyDestShared(callerAddr, freshAddr) == callerAddr

\* ctx.dest = copy.deepcopy(dest): the context works on the fresh copy
ApplyDest(callerAddr, freshAddr) == freshAddr

Apply == /\ pc = "init"
         /\ LET h1 == NormalisedSource(heap, SourceAddr)
                h2 == DeepCopy(h1, DestAddr)
            IN /\ heap' = h2
               /\ ctxs' = <<Ctx(Len(h1), ApplyDest(DestAddr, Len(h2)), 1, 0)>>
         /\ metas' = <<Meta(0, NoExc)>>
         /\ stack' = <<Frame("apply", 1), RunFrame(1, spec)>>
         /\ pc' = "running"
         /\ ev' = NoEvent
         /\ UNCHANGED <<exc, spec, callerSource, callerDest, result, functions, callStacks, vp, executed>>

\* main_pipeline.run returned: return copy.deepcopy(ctx.dest)
ApplyReturn == /\ pc = "running"
               /\ exc = NoExc
               /\ Len(stack) = 2
               /\ Top.kind = "run"
               /\ Top.pc > Len(Top.steps)
               /\ heap' = DeepCopy(heap, ctxs[1].dest)
               /\ result' = Fresh(heap)
               /\ stack' = <<>>
               /\ pc' = "returned"
               /\ ev' = NoEvent
               /\ UNCHANGED <<metas, ctxs, exc, spec, callerSource, callerDest, functions, callStacks, vp, executed>>

\* main_pipeline.run raised: apply logs and re-raises
ApplyRaise == /\ Unwinding("apply")
              /\ stack' = <<>>
              /\ pc' = "raised"
              /\ ev' = NoEvent
              /\ UNCHANGED <<heap, metas, ctxs, exc, spec, callerSource, callerDest, result, functions, callStacks, vp, executed>>

-----------------------------------------------------------------------------
(* Pipeline.run: budget check and exception propagation                    *)

\* the operation counter exceeds max_operations: RuntimeError before the handler runs
OperationLimit == /\ AtStep
                  /\ ~WithinBudget(Top.ctx)
                  /\ metas' = Counted(Top.ctx)
                  /\ exc' = OperationLimitError
                  /\ ev' = NoEvent
                  /\ UNCHANGED <<heap, ctxs, stack, pc, spec, callerSource, callerDest, result, functions, callStacks, vp, executed>>

\* an exception leaves Pipeline.run (re-raised unchanged by every except clause)
RunPropagate == /\ Unwinding("run")
                /\ stack' = Pop(stack)
                /\ ev' = [t |-> "propagate", at |-> Top.pc]
                /\ UNCHANGED <<heap, metas, ctxs, exc, pc, spec, callerSource, callerDest, result, functions, callStacks, vp, executed>>

-----------------------------------------------------------------------------
(* Leaf handlers                                                           *)

\* SetHandler: processor.set writes into the object ctx.dest refers to
ExecSet == /\ AtStep
           /\ CurStep.op = "set"
           /\ WithinBudget(Top.ctx)
           /\ metas' = Counted(Top.ctx)
           /\ executed' = executed + 1
           /\ heap' = [heap EXCEPT ![ctxs[Top.ctx].dest][CurStep.k] = CurStep.v]
           /\ stack' = Advance(stack)
           /\ ev' = NoEvent
           /\ UNCHANGED <<ctxs, exc, pc, spec, callerSource, callerDest, result, functions, callStacks, vp>>

\* AssertHandler with return: the value read from the source is returned as is
AssertReturnValue(c) == ctxs[c].source

ExecAssert == /\ AtStep
              /\ CurStep.op = "assert"
              /\ WithinBudget(Top.ctx)
              /\ metas' = Counted(Top.ctx)
              /\ executed' = executed + 1
              /\ ctxs' = [ctxs EXCEPT ![Top.ctx].dest = AssertReturnValue(Top.ctx)]
              /\ stack' = Advance(stack)
              /\ ev' = NoEvent
              /\ UNCHANGED <<heap, exc, pc, spec, callerSource, callerDest, result, functions, callStacks, vp>>

ExecRaise == /\ AtStep
             /\ CurStep.op = "raise"
             /\ WithinBudget(Top.ctx)
             /\ metas' = Counted(Top.ctx)
             /\ executed' = executed + 1
             /\ exc' = JPermError(CurStep.v)
             /\ ev' = NoEvent
             /\ UNCHANGED <<heap, ctxs, stack, pc, spec, callerSource, callerDest, result, functions, callStacks, vp>>

ExecBreak == /\ AtStep
             /\ CurStep.op = "break"
             /\ WithinBudget(Top.ctx)
             /\ metas' = Counted(Top.ctx)
             /\ executed' = executed + 1
             /\ exc' = BreakSignal
             /\ ev' = NoEvent
             /\ UNCHANGED <<heap, ctxs, stack, pc, spec, callerSource, callerDest, result, functions, callStacks, vp>>

ExecContinue == /\ AtStep
                /\ CurStep.op = "continue"
                /\ WithinBudget(Top.ctx)
                /\ metas' = Counted(Top.ctx)
                /\ executed' = executed + 1
                /\ exc' = ContinueSignal
                /\ ev' = NoEvent
                /\ UNCHANGED <<heap, ctxs, stack, pc, spec, callerSource, callerDest, result, functions, callStacks, vp>>

-----------------------------------------------------------------------------
(* Conditions of while / if, evaluated against the context's dest          *)

CondVal(c, cond) == CASE cond.t = "lit" -> cond.b
                      [] cond.t = "eq" -> DestDoc(c)[cond.k] # 0 /\ DestDoc(c)[cond.k] = cond.v
                      [] cond.t = "exists" -> DestDoc(c)[cond.k] # 0

\* "then" (or "do") when the condition holds, "else" otherwise
Branch(c, st) == IF CondVal(c, st.cond) THEN st.do ELSE st.els

\* variant: the handler re-raises without restoring the snapshot
RollbackSkipped(cs, c, snap) == cs

\* except Exception: ctx.dest = snapshot; raise
Rollback(cs, c, snap) == [cs EXCEPT ![c].dest = snap]

\* the record of a loop / if handler that let an exception out
UnwindEvent(f, e, cs) == [t |-> "unwind", handler |-> f.kind, exc |-> e, entry |-> f.entry,
                          body |-> heap[ctxs[f.child].dest], after |-> heap[cs[f.ctx].dest],
                          out |-> e]

-----------------------------------------------------------------------------
(* ForeachHandler                                                          *)

\* not arr and skip_empty: return ctx.dest
ForeachSkip == /\ AtStep
               /\ CurStep.op = "foreach"
               /\ WithinBudget(Top.ctx)
               /\ CurStep.n = 0
               /\ metas' = Counted(Top.ctx)
               /\ executed' = executed + 1
               /\ stack' = Advance(stack)
               /\ ev' = NoEvent
               /\ UNCHANGED <<heap, ctxs, exc, pc, spec, callerSource, callerDest, result, functions, callStacks, vp>>

\* variant: the size test lets one more element through
TooManyItemsLate(n) == n > MaxForeachItems + 1

\* arr_len > self._max_items
TooManyItems(n) == n > MaxForeachItems

\* arr_len > self._max_items: ValueError before the snapshot and the first iteration
ForeachTooLarge == /\ AtStep
                   /\ CurStep.op = "foreach"
                   /\ WithinBudget(Top.ctx)
                   /\ TooManyItems(CurStep.n)
                   /\ metas' = Counted(Top.ctx)
                   /\ executed' = executed + 1
                   /\ exc' = ForeachSizeError
                   /\ ev' = [t |-> "foreach_limit", n |-> CurStep.n, ctx |-> Top.ctx,
                             before |-> DestDoc(Top.ctx), stack |-> stack]
                   /\ UNCHANGED <<heap, ctxs, stack, pc, spec, callerSource, callerDest, result, functions, callStacks, vp>>

\* snapshot, then the first iteration in a child context sharing dest and metadata
ForeachEnter == /\ AtStep
                /\ CurStep.op = "foreach"
                /\ WithinBudget(Top.ctx)
                /\ CurStep.n > 0
                /\ ~ TooManyItems(CurStep.n)
                /\ LET c == Top.ctx
                       child == Len(ctxs) + 1
                   IN /\ metas' = Counted(c)
                      /\ executed' = executed + 1
                      /\ heap' = Extended(DeepCopy(heap, ctxs[c].dest))
                      /\ ctxs' = Append(ctxs, Ctx(Len(heap'), ctxs[c].dest, ctxs[c].meta, 1))
                      /\ stack' = stack \o <<[Frame("foreach", c) EXCEPT !.step = CurStep, !.snap = Fresh(heap),
                                                                         !.entry = DestDoc(c), !.i = 1,
                                                                         !.child = child],
                                              RunFrame(child, CurStep.do)>>
                /\ ev' = NoEvent
                /\ UNCHANGED <<exc, pc, spec, callerSource, callerDest, result, functions, callStacks, vp>>

\* ctx.dest = apply_to_context(body, foreach_ctx), then the next element
ForeachNext == /\ RunDone
               /\ Below.kind = "foreach"
               /\ Below.i < Below.step.n
               /\ LET f == Below
                      c == f.ctx
                      child == Len(ctxs) + 1
                   IN /\ heap' = Extended(DeepCopy(heap, ctxs[Top.ctx].dest))
                      /\ ctxs' = Append([ctxs EXCEPT ![c].dest = Fresh(heap)],
                                        Ctx(Len(heap'), Fresh(heap), ctxs[c].meta, f.i + 1))
                      /\ stack' = Pop(Pop(stack)) \o <<[f EXCEPT !.i = @ + 1, !.child = child],
                                                       RunFrame(child, f.step.do)>>
               /\ ev' = NoEvent
               /\ UNCHANGED <<metas, exc, pc, spec, callerSource, callerDest, result, functions, callStacks, vp, executed>>

\* the last element is done: return ctx.dest
ForeachReturn == /\ RunDone
                 /\ Below.kind = "foreach"
                 /\ Below.i >= Below.step.n
                 /\ heap' = DeepCopy(heap, ctxs[Top.ctx].dest)
                 /\ ctxs' = [ctxs EXCEPT ![Below.ctx].dest = Fresh(heap)]
                 /\ stack' = Advance(Pop(Pop(stack)))
                 /\ ev' = NoEvent
                 /\ UNCHANGED <<metas, exc, pc, spec, callerSource, callerDest, result, functions, callStacks, vp, executed>>

\* except Exception (signals included): restore the snapshot and re-raise
ForeachCatch == /\ Unwinding("foreach")
                /\ ctxs' = Rollback(ctxs, Top.ctx, Top.snap)
                /\ stack' = Pop(stack)
                /\ ev' = UnwindEvent(Top, exc, ctxs')
                /\ UNCHANGED <<heap, metas, exc, pc, spec, callerSource, callerDest, result, functions, callStacks, vp, executed>>

-----------------------------------------------------------------------------
(* WhileHandler                                                            *)

WhileEnter == /\ AtStep
              /\ CurStep.op = "while"
              /\ WithinBudget(Top.ctx)
              /\ metas' = Counted(Top.ctx)
              /\ executed' = executed + 1
              /\ heap' = DeepCopy(heap, ctxs[Top.ctx].dest)
              /\ stack' = Append(stack, [Frame("while", Top.ctx) EXCEPT !.step = CurStep, !.snap = Fresh(heap),
                                                                        !.entry = DestDoc(Top.ctx), !.i = 0,
                                                                        !.dw = CurStep.dw])
              /\ ev' = NoEvent
              /\ UNCHANGED <<ctxs, exc, pc, spec, callerSource, callerDest, result, functions, callStacks, vp>>

AtWhileHead == /\ pc = "running"
               /\ exc = NoExc
               /\ Top.kind = "while"

\* iteration >= self._max_iterations: RuntimeError, raised inside the try, so rolled back
WhileLimit == /\ AtWhileHead
              /\ Top.i >= MaxLoopIterations
              /\ ctxs' = Rollback(ctxs, Top.ctx, Top.snap)
              /\ exc' = LoopLimitError
              /\ stack' = Pop(stack)
              /\ ev' = UnwindEvent(Top, LoopLimitError, ctxs')
              /\ UNCHANGED <<heap, metas, pc, spec, callerSource, callerDest, result, functions, callStacks, vp, executed>>

\* the condition is false: break out of the loop and return ctx.dest
WhileExit == /\ AtWhileHead
             /\ Top.i < MaxLoopIterations
             /\ ~Top.dw
             /\ ~CondVal(Top.ctx, Top.step.cond)
             /\ stack' = Advance(Pop(stack))
             /\ ev' = [t |-> "loop_exit", handler |-> "while", iterations |-> Top.i]
             /\ UNCHANGED <<heap, metas, ctxs, exc, pc, spec, callerSource, callerDest, result, functions, callStacks, vp, executed>>

\* the body runs in the handler's own context
WhileBody == /\ AtWhileHead
             /\ Top.i < MaxLoopIterations
             /\ Top.dw \/ CondVal(Top.ctx, Top.step.cond)
             /\ stack' = Append(stack, RunFrame(Top.ctx, Top.step.do))
             /\ ev' = NoEvent
             /\ UNCHANGED <<heap, metas, ctxs, exc, pc, spec, callerSource, callerDest, result, functions, callStacks, vp, executed>>

\* ctx.dest = apply_to_context(do, ctx); do_while = False; iteration += 1
WhileNext == /\ RunDone
             /\ Below.kind = "while"
             /\ heap' = DeepCopy(heap, ctxs[Below.ctx].dest)
             /\ ctxs' = [ctxs EXCEPT ![Below.ctx].dest = Fresh(heap)]
             /\ stack' = Append(Pop(Pop(stack)), [Below EXCEPT !.dw = FALSE, !.i = @ + 1])
             /\ ev' = NoEvent
             /\ UNCHANGED <<metas, exc, pc, spec, callerSource, callerDest, result, functions, callStacks, vp, executed>>

WhileCatch == /\ Unwinding("while")
              /\ ctxs' = Rollback(ctxs, Top.ctx, Top.snap)
              /\ stack' = Pop(stack)
              /\ ev' = UnwindEvent(Top, exc, ctxs')
              /\ UNCHANGED <<heap, metas, exc, pc, spec, callerSource, callerDest, result, functions, callStacks, vp, executed>>

-----------------------------------------------------------------------------
(* IfHandler                                                               *)

\* the chosen branch is missing or empty: return ctx.dest
IfSkip == /\ AtStep
          /\ CurStep.op = "if"
          /\ WithinBudget(Top.ctx)
          /\ Branch(Top.ctx, CurStep) = <<>>
          /\ metas' = Counted(Top.ctx)
          /\ executed' = executed + 1
          /\ stack' = Advance(stack)
          /\ ev' = NoEvent
          /\ UNCHANGED <<heap, ctxs, exc, pc, spec, callerSource, callerDest, result, functions, callStacks, vp>>

IfEnter == /\ AtStep
           /\ CurStep.op = "if"
           /\ WithinBudget(Top.ctx)
           /\ Branch(Top.ctx, CurStep) # <<>>
           /\ metas' = Counted(Top.ctx)
           /\ executed' = executed + 1
           /\ heap' = DeepCopy(heap, ctxs[Top.ctx].dest)
           /\ stack' = stack \o <<[Frame("if", Top.ctx) EXCEPT !.step = CurStep, !.snap = Fresh(heap),
                                                               !.entry = DestDoc(Top.ctx)],
                                  RunFrame(Top.ctx, Branch(Top.ctx, CurStep))>>
           /\ ev' = NoEvent
           /\ UNCHANGED <<ctxs, exc, pc, spec, callerSource, callerDest, result, functions, callStacks, vp>>

\* return apply_to_context(actions, ctx): a deep copy becomes the context's dest
IfReturn == /\ RunDone
            /\ Below.kind = "if"
            /\ heap' = DeepCopy(heap, ctxs[Below.ctx].dest)
            /\ ctxs' = [ctxs EXCEPT ![Below.ctx].dest = Fresh(heap)]
            /\ stack' = Advance(Pop(Pop(stack)))
            /\ ev' = NoEvent
            /\ UNCHANGED <<metas, exc, pc, spec, callerSource, callerDest, result, functions, callStacks, vp, executed>>

IfCatch == /\ Unwinding("if")
           /\ ctxs' = Rollback(ctxs, Top.ctx, Top.snap)
           /\ stack' = Pop(stack)
           /\ ev' = UnwindEvent(Top, exc, ctxs')
           /\ UNCHANGED <<heap, metas, exc, pc, spec, callerSource, callerDest, result, functions, callStacks, vp, executed>>

-----------------------------------------------------------------------------
(* TryHandler                                                              *)

\* the record of a try handler that has finished, normally or not
TryExit(f, path, finExc, out) == [t |-> "try_exit", path |-> path, step |-> f.step, saved |-> f.saved,
                                  finRuns |-> f.finRuns, finExc |-> finExc, out |-> out]

TryEnter == /\ AtStep
            /\ CurStep.op = "try"
            /\ WithinBudget(Top.ctx)
            /\ metas' = Counted(Top.ctx)
            /\ executed' = executed + 1
            /\ stack' = stack \o <<[Frame("try", Top.ctx) EXCEPT !.step = CurStep, !.phase = "do",
                                                                 !.entry = DestDoc(Top.ctx)],
                                   RunFrame(Top.ctx, CurStep.do)>>
            /\ ev' = NoEvent
            /\ UNCHANGED <<heap, ctxs, exc, pc, spec, callerSource, callerDest, result, functions, callStacks, vp>>

\* the do block completed and there is a finally block: run it
TryDoFinally == /\ RunDone
                /\ Below.kind = "try"
                /\ Below.phase = "do"
                /\ Below.step.hasFinally
                /\ stack' = Pop(Pop(stack)) \o <<[Below EXCEPT !.phase = "finally", !.finRuns = @ + 1],
                                                 RunFrame(Below.ctx, Below.step.fin)>>
                /\ ev' = NoEvent
                /\ UNCHANGED <<heap, metas, ctxs, exc, pc, spec, callerSource, callerDest, result, functions, callStacks, vp, executed>>

\* the do block completed and there is no finally block: return ctx.dest
TryDoReturn == /\ RunDone
               /\ Below.kind = "try"
               /\ Below.phase = "do"
               /\ ~Below.step.hasFinally
               /\ stack' = Advance(Pop(Pop(stack)))
               /\ ev' = TryExit(Below, "do", NoExc, NoExc)
               /\ UNCHANGED <<heap, metas, ctxs, exc, pc, spec, callerSource, callerDest, result, functions, callStacks, vp, executed>>

\* variant: the handler puts the content dest had on entry back in place
CaughtHeapRestored(h, c, f) == [h EXCEPT ![ctxs[c].dest] = f.entry]

\* the handler does not touch dest when it catches: what do wrote stays
CaughtHeap(h, c, f) == h

\* ctx.metadata.update(error_info): in place, in the dict every sharing context refers to
ErrorInfo(ms, m, e) == [ms EXCEPT ![m].err = e]

\* except Exception as e, with an except block: old_metadata = ctx.metadata.copy(),
\* the error fields are written, the except block runs
TryCatchExcept == /\ Unwinding("try")
                  /\ Top.phase = "do"
                  /\ Top.step.hasExcept
                  /\ LET c == Top.ctx
                         m == ctxs[c].meta
                     IN /\ metas' = ErrorInfo(Append(metas, metas[m]), m, exc)
                        /\ heap' = CaughtHeap(heap, c, Top)
                        /\ stack' = Pop(stack) \o <<[Top EXCEPT !.phase = "except", !.saved = exc,
                                                               !.oldmeta = Len(metas) + 1],
                                                    RunFrame(c, Top.step.exc)>>
                        /\ ev' = [t |-> "try_catch", exc |-> exc, do |-> Top.step.do, failedAt |-> ev.at,
                                  entry |-> Top.entry, dest |-> heap'[ctxs[c].dest]]
                  /\ exc' = NoExc
                  /\ UNCHANGED <<ctxs, pc, spec, callerSource, callerDest, result, functions, callStacks, vp, executed>>

\* no except block, a finally block: it runs before the original error is re-raised
TryCatchFinally == /\ Unwinding("try")
                   /\ Top.phase = "do"
                   /\ ~Top.step.hasExcept
                   /\ Top.step.hasFinally
                   /\ stack' = Pop(stack) \o <<[Top EXCEPT !.phase = "reraise", !.saved = exc,
                                                          !.finRuns = @ + 1],
                                               RunFrame(Top.ctx, Top.step.fin)>>
                   /\ exc' = NoExc
                   /\ ev' = NoEvent
                   /\ UNCHANGED <<heap, metas, ctxs, pc, spec, callerSource, callerDest, result, functions, callStacks, vp, executed>>

\* neither except nor finally: raise
TryCatchReraise == /\ Unwinding("try")
                   /\ Top.phase = "do"
                   /\ ~Top.step.hasExcept
                   /\ ~Top.step.hasFinally
                   /\ stack' = Pop(stack)
                   /\ ev' = TryExit([Top EXCEPT !.saved = exc], "reraise", NoExc, exc)
                   /\ UNCHANGED <<heap, metas, ctxs, exc, pc, spec, callerSource, callerDest, result, functions, callStacks, vp, executed>>

\* finally: ctx.metadata = old_metadata rebinds the attribute of this context only
RestoreMetadata(cs, c, old) == [cs EXCEPT ![c].meta = old]

\* the except block completed: metadata restored, then the finally block
TryExceptFinally == /\ RunDone
                    /\ Below.kind = "try"
                    /\ Below.phase = "except"
                    /\ Below.step.hasFinally
                    /\ ctxs' = RestoreMetadata(ctxs, Below.ctx, Below.oldmeta)
                    /\ stack' = Pop(Pop(stack)) \o <<[Below EXCEPT !.phase = "finally", !.finRuns = @ + 1],
                                                     RunFrame(Below.ctx, Below.step.fin)>>
                    /\ ev' = NoEvent
                    /\ UNCHANGED <<heap, metas, exc, pc, spec, callerSource, callerDest, result, functions, callStacks, vp, executed>>

\* the except block completed and there is no finally block: return ctx.dest
TryExceptReturn == /\ RunDone
                   /\ Below.kind = "try"
                   /\ Below.phase = "except"
                   /\ ~Below.step.hasFinally
                   /\ ctxs' = RestoreMetadata(ctxs, Below.ctx, Below.oldmeta)
                   /\ stack' = Advance(Pop(Pop(stack)))
                   /\ ev' = TryExit(Below, "except", NoExc, NoExc)
                   /\ UNCHANGED <<heap, metas, exc, pc, spec, callerSource, callerDest, result, functions, callStacks, vp, executed>>

\* the except block raised: metadata restored, the new exception leaves the handler
TryExceptRaise == /\ Unwinding("try")
                  /\ Top.phase = "except"
                  /\ ctxs' = RestoreMetadata(ctxs, Top.ctx, Top.oldmeta)
                  /\ stack' = Pop(stack)
                  /\ ev' = TryExit(Top, "except_raised", NoExc, exc)
                  /\ UNCHANGED <<heap, metas, exc, pc, spec, callerSource, callerDest, result, functions, callStacks, vp, executed>>

\* the finally block after do or except completed: return ctx.dest
TryFinallyReturn == /\ RunDone
                    /\ Below.kind = "try"
                    /\ Below.phase = "finally"
                    /\ stack' = Advance(Pop(Pop(stack)))
                    /\ ev' = TryExit(Below, "finally", NoExc, NoExc)
                    /\ UNCHANGED <<heap, metas, ctxs, exc, pc, spec, callerSource, callerDest, result, functions, callStacks, vp, executed>>

\* the finally block after do or except raised: its exception leaves the handler
TryFinallyRaise == /\ Unwinding("try")
                   /\ Top.phase = "finally"
                   /\ stack' = Pop(stack)
                   /\ ev' = TryExit(Top, "finally", exc, exc)
                   /\ UNCHANGED <<heap, metas, ctxs, exc, pc, spec, callerSource, callerDest, result, functions, callStacks, vp, executed>>

\* variant: the exception of the finally block replaces the original one
ReraiseFinallyWins(original, fromFinally) == fromFinally

\* except Exception: pass, then raise: the original error leaves whatever finally raised
ReraiseAfterFinally(original, fromFinally) == original

\* the finally block before the re-raise completed
TryReraiseDone == /\ RunDone
                  /\ Below.kind = "try"
                  /\ Below.phase = "reraise"
                  /\ exc' = Below.saved
                  /\ stack' = Pop(Pop(stack))
                  /\ ev' = TryExit(Below, "reraise", NoExc, exc')
                  /\ UNCHANGED <<heap, metas, ctxs, pc, spec, callerSource, callerDest, result, functions, callStacks, vp, executed>>

\* the finally block before the re-raise raised
TryReraiseRaise == /\ Unwinding("try")
                   /\ Top.phase = "reraise"
                   /\ exc' = ReraiseAfterFinally(Top.saved, exc)
                   /\ stack' = Pop(stack)
                   /\ ev' = TryExit(Top, "reraise", exc, exc')
                   /\ UNCHANGED <<heap, metas, ctxs, pc, spec, callerSource, callerDest, result, functions, callStacks, vp, executed>>

-----------------------------------------------------------------------------
(* DefHandler, CallHandler, $return                                        *)

\* the record of a function call that has finished, normally or not
CallExit(f, arrived, out) == [t |-> "call_exit", step |-> f.step, phase |-> f.phase, fn |-> f.fn,
                              exc |-> arrived, saved |-> f.saved, out |-> out,
                              ctx |-> f.ctx, cs |-> f.cs, before |-> f.before]

\* ctx.metadata["__functions__"][name] = function; the dict is created on first use
ExecDef == /\ AtStep
           /\ CurStep.op = "def"
           /\ WithinBudget(Top.ctx)
           /\ LET c == Top.ctx
                  m == ctxs[c].meta
                  tab == metas[m].funcs
              IN IF tab = 0
                   THEN /\ functions' = Append(functions,
                                               [n \in FuncNames |-> IF n = CurStep.f THEN Closure(CurStep, c)
                                                                                     ELSE NoFn])
                        /\ metas' = [Counted(c) EXCEPT ![m].funcs = Len(functions) + 1]
                   ELSE /\ functions' = [functions EXCEPT ![tab][CurStep.f] = Closure(CurStep, c)]
                        /\ metas' = Counted(c)
           /\ executed' = executed + 1
           /\ stack' = Advance(stack)
           /\ ev' = NoEvent
           /\ UNCHANGED <<heap, ctxs, exc, pc, spec, callerSource, callerDest, result, callStacks, vp>>

\* function_name in ctx.metadata.get("__functions__", {})
Defined(c, name) == /\ metas[ctxs[c].meta].funcs # 0
                    /\ functions[metas[ctxs[c].meta].funcs][name] # NoFn

\* raise ValueError("Function ... is not defined.")
CallUndefined == /\ AtStep
                 /\ CurStep.op = "func"
                 /\ WithinBudget(Top.ctx)
                 /\ ~Defined(Top.ctx, CurStep.f)
                 /\ metas' = Counted(Top.ctx)
                 /\ executed' = executed + 1
                 /\ exc' = FuncUndefinedError
                 /\ ev' = NoEvent
                 /\ UNCHANGED <<heap, ctxs, stack, pc, spec, callerSource, callerDest, result, functions,
                                callStacks, vp>>

\* call_stack.append(function_name); ctx.metadata['_function_call_stack'] = call_stack
CallPush == /\ AtStep
            /\ CurStep.op = "func"
            /\ WithinBudget(Top.ctx)
            /\ Defined(Top.ctx, CurStep.f)
            /\ LET c == Top.ctx
                   m == ctxs[c].meta
                   cs == metas[m].cstack
                   addr == IF cs = 0 THEN Len(callStacks) + 1 ELSE cs
               IN /\ callStacks' = IF cs = 0 THEN Append(callStacks, <<CurStep.f>>)
                                             ELSE [callStacks EXCEPT ![cs] = Append(@, CurStep.f)]
                  /\ metas' = [Counted(c) EXCEPT ![m].cstack = addr]
                  /\ stack' = Append(stack, [Frame("call", c) EXCEPT !.step = CurStep, !.phase = "check",
                                                                     !.cs = addr,
                                                                     !.before = [depth |-> IF cs = 0 THEN 0 ELSE Len(callStacks[cs]),
                                                                                 callctx |-> metas[m].callctx],
                                                                     !.fn = functions[metas[m].funcs][CurStep.f]])
            /\ executed' = executed + 1
            /\ ev' = NoEvent
            /\ UNCHANGED <<heap, ctxs, exc, pc, spec, callerSource, callerDest, result, functions, vp>>

AtDepthCheck == /\ pc = "running"
                /\ exc = NoExc
                /\ Top.kind = "call"
                /\ Top.phase = "check"

\* variant: the depth test lets one more level through
DepthExceededLate(depth) == depth > MaxFunctionRecursionDepth + 1

\* len(call_stack) > ctx.engine.max_function_recursion_depth
DepthExceeded(depth) == depth > MaxFunctionRecursionDepth

PopCallStackNever(f) == callStacks

\* finally: call_stack.pop()
PopCallStack(f) == [callStacks EXCEPT ![f.cs] = Pop(@)]

\* finally: restore (or remove) _current_call_ctx in the caller's metadata
RestoreCallCtx(f) == [metas EXCEPT ![ctxs[f.ctx].meta].callctx = f.oldcall]

\* raise RecursionError(...); the name is popped again on the way out
CallTooDeep == /\ AtDepthCheck
               /\ DepthExceeded(Len(callStacks[Top.cs]))
               /\ exc' = RecursionDepthError
               /\ callStacks' = PopCallStack(Top)
               /\ stack' = Pop(stack)
               /\ ev' = CallExit(Top, NoExc, RecursionDepthError)
               /\ UNCHANGED <<heap, metas, ctxs, pc, spec, callerSource, callerDest, result, functions,
                              executed, vp>>

\* call_ctx = ctx.metadata.get('_current_call_ctx', ctx), ctx being the context of the $def
CallCtx(ms, fn) == IF ms[ctxs[fn.defctx].meta].callctx # 0 THEN ms[ctxs[fn.defctx].meta].callctx
                                                           ELSE fn.defctx

\* function(): the body runs in a copy of call_ctx made as "context" says
CallInvoke == /\ AtDepthCheck
              /\ ~DepthExceeded(Len(callStacks[Top.cs]))
              /\ LET c == Top.ctx
                     m == ctxs[c].meta
                     fn == Top.fn
                     ms == [metas EXCEPT ![m].callctx = c]
                     cc == CallCtx(ms, fn)
                     mode == fn.def.mode
                     h == CASE mode = "new" -> Append(heap, EmptyDoc)
                            [] mode = "shared" -> heap
                            [] OTHER -> DeepCopy(heap, ctxs[cc].dest)
                     d == IF mode = "shared" THEN ctxs[cc].dest ELSE Len(h)
                     child == Len(ctxs) + 1
                 IN /\ metas' = ms
                    /\ heap' = h
                    /\ ctxs' = Append(ctxs, Ctx(ctxs[cc].source, d, ctxs[cc].meta, 0))
                    /\ stack' = Pop(stack) \o <<[Top EXCEPT !.phase = "body", !.oldcall = metas[m].callctx,
                                                            !.child = child],
                                                RunFrame(child, fn.def.do)>>
              /\ ev' = NoEvent
              /\ UNCHANGED <<exc, pc, spec, callerSource, callerDest, result, functions, callStacks,
                             executed, vp>>

\* the body (or on_failure) completed: its deep-copied dest is the value of the call,
\* which the pipeline binds to the caller's dest
CallReturn == /\ RunDone
              /\ Below.kind = "call"
              /\ heap' = DeepCopy(heap, ctxs[Top.ctx].dest)
              /\ ctxs' = [ctxs EXCEPT ![Below.ctx].dest = Fresh(heap)]
              /\ metas' = RestoreCallCtx(Below)
              /\ callStacks' = PopCallStack(Below)
              /\ stack' = Advance(Pop(Pop(stack)))
              /\ ev' = CallExit(Below, NoExc, NoExc)
              /\ UNCHANGED <<exc, pc, spec, callerSource, callerDest, result, functions, executed, vp>>

\* except Exception as e, with on_failure: it runs in a plain copy of call_ctx
CallOnFailure == /\ Unwinding("call")
                 /\ Top.phase = "body"
                 /\ Top.fn.def.hasFail
                 /\ LET cc == CallCtx(metas, Top.fn)
                        child == Len(ctxs) + 1
                    IN /\ ctxs' = Append(ctxs, Ctx(ctxs[cc].source, ctxs[cc].dest, ctxs[cc].meta, 0))
                       /\ stack' = Pop(stack) \o <<[Top EXCEPT !.phase = "fail", !.saved = exc,
                                                               !.child = child],
                                                   RunFrame(child, Top.fn.def.fail)>>
                 /\ exc' = NoExc
                 /\ ev' = NoEvent
                 /\ UNCHANGED <<heap, metas, pc, spec, callerSource, callerDest, result, functions,
                                callStacks, executed, vp>>

\* except Exception as e, without on_failure: raise e
CallBodyRaise == /\ Unwinding("call")
                 /\ Top.phase = "body"
                 /\ ~Top.fn.def.hasFail
                 /\ metas' = RestoreCallCtx(Top)
                 /\ callStacks' = PopCallStack(Top)
                 /\ stack' = Pop(stack)
                 /\ ev' = CallExit(Top, exc, exc)
                 /\ UNCHANGED <<heap, ctxs, exc, pc, spec, callerSource, callerDest, result, functions,
                                executed, vp>>

\* on_failure raised: its exception leaves the call
CallFailRaise == /\ Unwinding("call")
                 /\ Top.phase = "fail"
                 /\ metas' = RestoreCallCtx(Top)
                 /\ callStacks' = PopCallStack(Top)
                 /\ stack' = Pop(stack)
                 /\ ev' = CallExit(Top, exc, exc)
                 /\ UNCHANGED <<heap, ctxs, exc, pc, spec, callerSource, callerDest, result, functions,
                                executed, vp>>

\* $return: raise ReturnSignal(value)
ExecReturn == /\ AtStep
              /\ CurStep.op = "return"
              /\ WithinBudget(Top.ctx)
              /\ metas' = Counted(Top.ctx)
              /\ executed' = executed + 1
              /\ exc' = ReturnSignal(CurStep.v)
              /\ ev' = NoEvent
              /\ UNCHANGED <<heap, ctxs, stack, pc, spec, callerSource, callerDest, result, functions,
                             callStacks, vp>>

Next == \/ Apply
        \/ ApplyReturn
        \/ ApplyRaise
        \/ OperationLimit
        \/ RunPropagate
        \/ ExecSet
        \/ ExecAssert
        \/ ExecRaise
        \/ ExecBreak
        \/ ExecContinue
        \/ ForeachSkip
        \/ ForeachTooLarge
        \/ ForeachEnter
        \/ ForeachNext
        \/ ForeachReturn
        \/ ForeachCatch
        \/ WhileEnter
        \/ WhileLimit
        \/ WhileExit
        \/ WhileBody
        \/ WhileNext
        \/ WhileCatch
        \/ IfSkip
        \/ IfEnter
        \/ IfReturn
        \/ IfCatch
        \/ TryEnter
        \/ TryDoFinally
        \/ TryDoReturn
        \/ TryCatchExcept
        \/ TryCatchFinally
        \/ TryCatchReraise
        \/ TryExceptFinally
        \/ TryExceptReturn
        \/ TryExceptRaise
        \/ TryFinallyReturn
        \/ TryFinallyRaise
        \/ TryReraiseDone
        \/ TryReraiseRaise
        \/ ExecDef
        \/ CallUndefined
        \/ CallPush
        \/ CallTooDeep
        \/ CallInvoke
        \/ CallReturn
        \/ CallOnFailure
        \/ CallBodyRaise
        \/ CallFailRaise
        \/ ExecReturn

Spec == Init /\ [][Next]_vars

-----------------------------------------------------------------------------
(* Properties                                                              *)

Loops == {"foreach", "while"}

RECURSIVE AfterSets(_, _)
\* the document after a sequence of set steps
AfterSets(doc, steps) == IF steps = <<>> THEN doc
                         ELSE AfterSets([doc EXCEPT ![Head(steps).k] = Head(steps).v], Tail(steps))

AllSets(steps) == \A i \in DOMAIN steps : steps[i].op = "set"

\* C1: apply never mutates the caller's source or dest objects, whether it
\* returns or raises, and the document it returns is a fresh deep copy of the
\* context's dest that is neither the caller's dest nor any context's dest.
C1_ApplyLeavesCallerObjects ==
    pc # "init" =>
        /\ heap[SourceAddr] = callerSource
        /\ heap[DestAddr] = callerDest
        /\ pc = "returned" =>
               /\ result \notin {SourceAddr, DestAddr}
               /\ \A c \in DOMAIN ctxs : ctxs[c].dest # result /\ ctxs[c].source # result
               /\ heap[result] = heap[ctxs[1].dest]

\* an apply that returned a document different from the caller's dest
C1_Witness == /\ pc = "returned"
              /\ heap[result] # callerDest
              /\ heap[DestAddr] = callerDest

\* C2: at every point of an apply the source document of the context equals
\* the normalised source the apply started with.
C2_SourceNeverMutated ==
    pc = "running" => heap[ctxs[1].source] = callerSource

\* C3: when an error leaves a foreach, while or if handler, the dest of the
\* handler's context equals the dest it had when the handler started, and the
\* same error goes on propagating.
C3_ErrorRollsBack ==
    (ev.t = "unwind" /\ ev.exc.kind = "error") =>
        /\ ev.after = ev.entry
        /\ exc = ev.exc

\* an error left a handler whose body had already changed dest
C3_Witness == /\ ev.t = "unwind"
              /\ ev.exc.kind = "error"
              /\ ev.handler = "foreach"
              /\ ev.body # ev.entry
              /\ ev.after = ev.entry

\* C4: a $break raised in the body of a foreach or while is caught by that
\* loop: the loop ends without error, so no BreakSignal ever leaves a loop
\* handler.
C4_BreakCaughtByLoop ==
    (ev.t = "unwind" /\ ev.handler \in Loops) => ev.exc # BreakSignal

\* C5: a $continue raised in the body of a foreach or while ends the current
\* iteration only: the loop goes on, so no ContinueSignal ever leaves a loop
\* handler and the changes of the iteration are never rolled back.
C5_ContinueCaughtByLoop ==
    (ev.t = "unwind" /\ ev.handler \in Loops) => ev.exc.kind # "continue"

\* C6: a control-flow signal raised in the do block of a try is never treated
\* as a caught error: no except block ever runs for a signal.
C6_SignalNeverCaught ==
    \A i \in DOMAIN stack :
        (stack[i].kind = "try" /\ stack[i].phase = "except") => ~IsControlFlowSignal(stack[i].saved)

\* C7: whenever a try that has a finally block is left, on any path, its
\* finally block has run exactly once.
C7_FinallyRunsOnce ==
    (ev.t = "try_exit" /\ ev.step.hasFinally) => ev.finRuns = 1

\* C8 as stated: whenever the finally block raises, the exception that
\* leaves the try is the one raised by finally.
C8_FinallySupersedesAlways ==
    (ev.t = "try_exit" /\ ev.finExc # NoExc) => ev.out = ev.finExc

\* C8: when the finally block raises after do completed or after except
\* handled the error, the exception of finally leaves the try; when it raises
\* while the error of do is being re-raised because except is absent, it is
\* discarded and the error of do leaves the try.
C8_FinallySupersedesUnlessReraising ==
    (ev.t = "try_exit" /\ ev.finExc # NoExc) =>
        /\ ev.path = "reraise" => ev.out = ev.saved /\ exc = ev.saved
        /\ ev.path # "reraise" => ev.out = ev.finExc /\ exc = ev.finExc

\* finally raised after except had handled the error of do
C8_Witness == /\ ev.t = "try_exit"
              /\ ev.path = "finally"
              /\ ev.saved.kind = "error"
              /\ ev.finExc.kind = "error"
              /\ ev.finExc # ev.saved

\* finally raised while the error of do was being re-raised
C8_WitnessReraise == /\ ev.t = "try_exit"
                     /\ ev.path = "reraise"
                     /\ ev.finExc.kind = "error"
                     /\ ev.out # ev.finExc

\* C9: when a try catches an error, the dest its except block starts with
\* holds exactly the changes do made before the failing step: for a do block
\* whose steps before the failing one are sets (the failing step not being a
\* nested try or a call, which keep effects of their own), it is the entry
\* dest with those sets applied and nothing of the steps after.
C9_CatchKeepsPartialDest ==
    (/\ ev.t = "try_catch"
     /\ ev.do[ev.failedAt].op \notin {"try", "func"}
     /\ AllSets(SubSeq(ev.do, 1, ev.failedAt - 1))) =>
        /\ ev.dest = AfterSets(ev.entry, SubSeq(ev.do, 1, ev.failedAt - 1))
        /\ DestDoc(Top.ctx) = ev.dest
        /\ Top.pc = 1
        /\ Top.steps = Below.step.exc

\* an error was caught after do had changed dest, with steps of do left over
C9_Witness == /\ ev.t = "try_catch"
              /\ ev.exc.kind = "error"
              /\ ev.failedAt > 1
              /\ ev.failedAt < Len(ev.do)
              /\ AllSets(SubSeq(ev.do, 1, ev.failedAt - 1))
              /\ ev.dest # ev.entry

\* C10: the error fields are in the metadata a step sees only while an
\* except block is running: a step dispatched outside every except block
\* finds no error fields in its context's metadata.
C10_ErrorFieldsOnlyDuringExcept ==
    (AtStep /\ metas[ctxs[Top.ctx].meta].err # NoExc) =>
        \E i \in DOMAIN stack : stack[i].kind = "try" /\ stack[i].phase = "except"

\* C11: a ReturnSignal raised in a function body ends the call with its value:
\* the signal never leaves the function call.
C11_ReturnEndsCall ==
    ev.t = "call_exit" => ev.out.kind # "return"

\* C12: the on_failure block of a function runs only for a plain error of the
\* body, never for a control-flow signal.
C12_OnFailureOnlyForErrors ==
    \A i \in DOMAIN stack :
        (stack[i].kind = "call" /\ stack[i].phase = "fail") => stack[i].saved.kind = "error"

\* the operation counter the context of the apply sees in its metadata
OperationCount == IF ctxs = <<>> THEN 0 ELSE metas[ctxs[1].meta].count

\* C13: the operation counter in the metadata of the context never goes down
\* from one step of an apply to the next.
C13_CounterMonotonic ==
    [][OperationCount' >= OperationCount]_vars

\* C14: with max_operations = N no more than N handlers ever start: the
\* (N+1)-th handler execution is refused with RuntimeError.
C14_AtMostNHandlers ==
    executed <= MaxOperations

\* C15 as stated: the length of the function call stack never exceeds
\* max_function_recursion_depth, the moment of the depth check included.
C15_DepthNeverExceedsMax ==
    \A a \in DOMAIN callStacks : Len(callStacks[a]) <= MaxFunctionRecursionDepth

\* C15 amended: the length of the function call stack exceeds
\* max_function_recursion_depth only at the depth check, made after the name
\* was appended, and then by exactly one; that check raises RecursionError.
C15_DepthExceedsMaxOnlyAtCheck ==
    \A a \in DOMAIN callStacks :
        /\ Len(callStacks[a]) <= MaxFunctionRecursionDepth + 1
        /\ Len(callStacks[a]) > MaxFunctionRecursionDepth
              => (AtDepthCheck /\ Top.cs = a /\ ENABLED CallTooDeep /\ ~ ENABLED CallInvoke)

\* a call was refused by the depth check and its name popped again
C15_Witness ==
    /\ ev.t = "call_exit"
    /\ ev.out = RecursionDepthError
    /\ ev.phase = "check"
    /\ \E a \in DOMAIN callStacks : Len(callStacks[a]) = MaxFunctionRecursionDepth

(***************************************************************************)
(* Values of the value pipeline.  A Python str is the sequence of its      *)
(* characters; every value is a record of the same shape, so that values   *)
(* of different Python types compare unequal instead of not comparing.     *)
(* A dict is the sequence of its keys, in insertion order, with the        *)
(* sequence of its values; a key is a value too.                           *)
(***************************************************************************)
MaxStrLen == 4

StrV(chars) == [t |-> "str", s |-> chars, n |-> 0, keys |-> <<>>, items |-> <<>>]
IntV(i) == [t |-> "int", s |-> <<>>, n |-> i, keys |-> <<>>, items |-> <<>>]
BoolV(b) == [t |-> "bool", s |-> <<>>, n |-> IF b THEN 1 ELSE 0, keys |-> <<>>, items |-> <<>>]
NoneV == [t |-> "none", s |-> <<>>, n |-> 0, keys |-> <<>>, items |-> <<>>]
ListV(xs) == [t |-> "list", s |-> <<>>, n |-> 0, keys |-> <<>>, items |-> xs]
DictV(ks, xs) == [t |-> "dict", s |-> <<>>, n |-> 0, keys |-> ks, items |-> xs]

\* str.replace(old, new): leftmost, non-overlapping occurrences
RECURSIVE Replace(_, _, _)
Replace(str, old, new) ==
    IF Len(str) < Len(old) THEN str
    ELSE IF SubSeq(str, 1, Len(old)) = old
         THEN new \o Replace(SubSeq(str, Len(old) + 1, Len(str)), old, new)
         ELSE <<Head(str)>> \o Replace(Tail(str), old, new)

\* variant: only the $$ escape is stripped
UnescapeStrDollarOnly(str) == Replace(str, <<"$", "$">>, <<"$">>)

\* obj.replace("$${", "${").replace("$$", "$")
UnescapeStr(str) == Replace(Replace(str, <<"$", "$", "{">>, <<"$", "{">>), <<"$", "$">>, <<"$">>)

\* == on hashable values: True == 1 and False == 0, otherwise same type and content
ScalarEq(a, b) == IF a.t \in {"int", "bool"} /\ b.t \in {"int", "bool"} THEN a.n = b.n ELSE a = b

\* position of key k in the key sequence ks, 0 when absent
KeyIndex(ks, k) == IF \E i \in DOMAIN ks : ScalarEq(ks[i], k)
                   THEN CHOOSE i \in DOMAIN ks : ScalarEq(ks[i], k) /\ \A j \in 1..(i - 1) : ~ ScalarEq(ks[j], k)
                   ELSE 0

\* d[k] = x on a dict: a new key goes last, an existing key keeps its place
DictSet(d, k, x) == IF KeyIndex(d.keys, k) = 0
                    THEN DictV(Append(d.keys, k), Append(d.items, x))
                    ELSE DictV(d.keys, [d.items EXCEPT ![KeyIndex(d.keys, k)] = x])

\* the dict comprehension {f(k): g(v) for k, v in obj.items()}
RECURSIVE DictFrom(_, _, _)
DictFrom(ks, xs, acc) == IF ks = <<>> THEN acc
                         ELSE DictFrom(Tail(ks), Tail(xs), DictSet(acc, Head(ks), Head(xs)))

RECURSIVE template_unescape(_)
template_unescape(obj) ==
    CASE obj.t = "str" -> StrV(UnescapeStr(obj.s))
      [] obj.t = "list" -> ListV([i \in DOMAIN obj.items |-> template_unescape(obj.items[i])])
      [] obj.t = "dict" -> DictFrom([i \in DOMAIN obj.keys |->
                                        IF obj.keys[i].t = "str" THEN StrV(UnescapeStr(obj.keys[i].s))
                                                                 ELSE obj.keys[i]],
                                    [i \in DOMAIN obj.items |-> template_unescape(obj.items[i])],
                                    DictV(<<>>, <<>>))
      [] OTHER -> obj

\* the strings over $, { and a letter, up to MaxStrLen characters
RECURSIVE StringsOfLen(_)
StringsOfLen(k) == IF k = 0 THEN {<<>>}
                   ELSE {<<c>> \o r : c \in {"$", "{", "a"}, r \in StringsOfLen(k - 1)}

EscapeStrings == UNION {StringsOfLen(k) : k \in 0..MaxStrLen}

\* the values handed to the unescape rule: strings, and strings as list
\* items, dict keys and dict values
UnescapeInputs ==
    {StrV(x) : x \in EscapeStrings}
    \cup {ListV(<<StrV(x), IntV(1)>>) : x \in StringsOfLen(2) \cup StringsOfLen(3)}
    \cup {DictV(<<StrV(x), StrV(<<"$">>)>>, <<StrV(x), IntV(1)>>) : x \in StringsOfLen(2)}
    \cup {DictV(<<StrV(<<"a">>)>>, <<ListV(<<StrV(x)>>)>>) : x \in StringsOfLen(3)}

UnescapeInit == /\ vp \in {[status |-> "unescape", v |-> x, cur |-> x, once |-> x, n |-> 0] :
                               x \in UnescapeInputs}
                /\ heap = <<>>
                /\ metas = <<>>
                /\ ctxs = <<>>
                /\ stack = <<>>
                /\ exc = NoExc
                /\ pc = "value"
                /\ spec = <<>>
                /\ callerSource = EmptyDoc
                /\ callerDest = EmptyDoc
                /\ result = EmptyDoc
                /\ ev = NoEvent
                /\ functions = <<>>
                /\ callStacks = <<>>
                /\ executed = 0

\* current = rule.unescape(current), applied to a value and then to its result
Unescape == /\ vp.status = "unescape"
            /\ vp.n < 2
            /\ vp' = [vp EXCEPT !.cur = template_unescape(vp.cur),
                                !.once = IF vp.n = 0 THEN template_unescape(vp.cur) ELSE @,
                                !.n = @ + 1]
            /\ UNCHANGED <<heap, metas, ctxs, stack, exc, pc, spec, callerSource, callerDest, result,
                           ev, functions, callStacks, executed>>

UnescapeNext == Unescape

UnescapeSpec == UnescapeInit /\ [][UnescapeNext]_vars

\* the lengths of the runs of $ in a string are at most 2, or 3 when the run
\* is directly followed by {
ShortDollarRuns(str) ==
    \A i \in DOMAIN str :
        /\ (i + 2 <= Len(str) /\ str[i] = "$" /\ str[i + 1] = "$" /\ str[i + 2] = "$")
              => (i + 3 <= Len(str) /\ str[i + 3] = "{")
        /\ ~ (i + 3 <= Len(str) /\ \A j \in i..(i + 3) : str[j] = "$")

RECURSIVE ShortDollarRunsIn(_)
ShortDollarRunsIn(obj) ==
    CASE obj.t = "str" -> ShortDollarRuns(obj.s)
      [] obj.t \in {"list", "dict"} ->
            /\ \A i \in DOMAIN obj.keys : ShortDollarRunsIn(obj.keys[i])
            /\ \A i \in DOMAIN obj.items : ShortDollarRunsIn(obj.items[i])
      [] OTHER -> TRUE

\* C20 as stated: unescape is idempotent, unescape(unescape(v)) = unescape(v)
\* for every value v.
C20_UnescapeIdempotent ==
    (vp.status = "unescape" /\ vp.n = 2) => vp.cur = vp.once

\* C20 amended: unescape(unescape(v)) = unescape(v) for every value v in which
\* no run of $ characters is longer than two, or than three when the run is
\* directly followed by {.
C20_UnescapeIdempotentOnShortRuns ==
    (vp.status = "unescape" /\ vp.n = 2 /\ ShortDollarRunsIn(vp.v)) => vp.cur = vp.once

\* an escaped value with short runs was unescaped twice, the first time changing it
C20_Witness ==
    /\ vp.status = "unescape"
    /\ vp.n = 2
    /\ ShortDollarRunsIn(vp.v)
    /\ vp.once # vp.v
    /\ vp.cur = vp.once

(***************************************************************************)
(* The value pipeline: special constructs ($ref, $raw), templates,         *)
(* container descent and identity, and the stabilisation loop of           *)
(* Engine.process_value.  A handler or a call of process_value yields an   *)
(* outcome: a returned value, a RawValueSignal with its value, or an       *)
(* exception.  The source document is a dict; pointers and template        *)
(* expressions are read from it.                                           *)
(***************************************************************************)
ValueMaxDepth == 3

Ok(v) == [k |-> "ok", v |-> v, e |-> ""]
RawValueSignal(v) == [k |-> "signal", v |-> v, e |-> "RawValueSignal"]
Raised(e) == [k |-> "raise", v |-> NoneV, e |-> e]

RefKey == StrV(<<"$", "r", "e", "f">>)
RawKey == StrV(<<"$", "r", "a", "w">>)
DefaultKey == StrV(<<"$", "d", "e", "f", "a", "u", "l", "t">>)

\* the keys of the specials mapping, in its order
SpecialKeys == <<RefKey, RawKey>>

HasKey(d, k) == KeyIndex(d.keys, k) # 0
DictGet(d, k) == d.items[KeyIndex(d.keys, k)]

\* == on values: dicts are equal when they map equal keys to equal values
RECURSIVE PyEq(_, _)
PyEq(a, b) ==
    CASE a.t = "list" /\ b.t = "list" ->
            /\ Len(a.items) = Len(b.items)
            /\ \A i \in DOMAIN a.items : PyEq(a.items[i], b.items[i])
      [] a.t = "dict" /\ b.t = "dict" ->
            /\ Len(a.keys) = Len(b.keys)
            /\ \A i \in DOMAIN a.keys :
                  /\ HasKey(b, a.keys[i])
                  /\ PyEq(a.items[i], DictGet(b, a.keys[i]))
      [] OTHER -> ScalarEq(a, b)

\* s[i:j] with 1-based inclusive bounds, cut at the end of the string
Slice(str, i, j) == SubSeq(str, i, IF j > Len(str) THEN Len(str) ELSE j)

StartsWith(str, prefix) == Slice(str, 1, Len(prefix)) = prefix

\* s.find("${", i): the first position from i on where ${ starts, 0 when none
FindPlaceholder(str, i) ==
    IF \E j \in i..(Len(str) - 1) : str[j] = "$" /\ str[j + 1] = "{"
    THEN CHOOSE j \in i..(Len(str) - 1) :
            /\ str[j] = "$" /\ str[j + 1] = "{"
            /\ \A h \in i..(j - 1) : ~ (str[h] = "$" /\ str[h + 1] = "{")
    ELSE 0

RECURSIVE HasPlaceholderFrom(_, _)
HasPlaceholderFrom(str, i) ==
    LET j == FindPlaceholder(str, i)
    IN IF j = 0 THEN FALSE
       ELSE IF j > 1 /\ str[j - 1] = "$" THEN HasPlaceholderFrom(str, j + 2)
       ELSE TRUE

has_unescaped_placeholder(str) == HasPlaceholderFrom(str, 1)

\* TemplMatcher.matches
TemplMatches(step) == step.t = "str" /\ has_unescaped_placeholder(step.s)

\* the loop of _is_single_expression from position p on
RECURSIVE SingleScan(_, _, _)
SingleScan(str, p, depth) ==
    IF p > Len(str) THEN FALSE
    ELSE IF str[p - 1] = "$" /\ str[p] = "{" THEN SingleScan(str, p + 1, depth + 1)
    ELSE IF str[p] = "}"
         THEN IF depth = 0 THEN p = Len(str) ELSE SingleScan(str, p + 1, depth - 1)
    ELSE SingleScan(str, p + 1, depth)

is_single_expression(str) ==
    /\ StartsWith(str, <<"$", "{">>)
    /\ Len(str) >= 1 /\ str[Len(str)] = "}"
    /\ SingleScan(str, 3, 0)

\* the inner loop of _flat_substitute: the position of the } closing the
\* placeholder whose expression starts at j, 0 when it is not closed
RECURSIVE CloseBrace(_, _, _)
CloseBrace(tmpl, j, depth) ==
    IF j > Len(tmpl) THEN 0
    ELSE IF tmpl[j] = "{" /\ tmpl[j - 1] = "$" THEN CloseBrace(tmpl, j + 1, depth + 1)
    ELSE IF tmpl[j] = "}"
         THEN IF depth = 0 THEN j ELSE CloseBrace(tmpl, j + 1, depth - 1)
    ELSE CloseBrace(tmpl, j + 1, depth)

DigitChars == <<"0", "1", "2", "3", "4", "5", "6", "7", "8", "9">>

\* str(i) of an int
RECURSIVE IntStr(_)
IntStr(i) == IF i < 0 THEN <<"-">> \o IntStr(0 - i)
             ELSE IF i < 10 THEN <<DigitChars[i + 1]>>
             ELSE IntStr(i \div 10) \o <<DigitChars[(i % 10) + 1]>>

RECURSIVE JoinStrs(_, _)
JoinStrs(strs, sep) == IF strs = <<>> THEN <<>>
                       ELSE IF Len(strs) = 1 THEN strs[1]
                       ELSE strs[1] \o sep \o JoinStrs(Tail(strs), sep)

\* json.dumps(val, ensure_ascii=False), for strings that need no escaping
RECURSIVE JsonDumps(_)
JsonDumps(val) ==
    CASE val.t = "str" -> <<"\"">> \o val.s \o <<"\"">>
      [] val.t = "int" -> IntStr(val.n)
      [] val.t = "bool" -> IF val.n = 1 THEN <<"t", "r", "u", "e">> ELSE <<"f", "a", "l", "s", "e">>
      [] val.t = "none" -> <<"n", "u", "l", "l">>
      [] val.t = "list" -> <<"[">> \o JoinStrs([i \in DOMAIN val.items |-> JsonDumps(val.items[i])],
                                               <<",", " ">>) \o <<"]">>
      [] OTHER -> <<"{">> \o JoinStrs([i \in DOMAIN val.keys |->
                                          (IF val.keys[i].t = "str" THEN JsonDumps(val.keys[i])
                                           ELSE <<"\"">> \o JsonDumps(val.keys[i]) \o <<"\"">>)
                                          \o <<":", " ">> \o JsonDumps(val.items[i])],
                                      <<",", " ">>) \o <<"}">>

\* rendered = json.dumps(val) for a Mapping or list, str(val) otherwise
Rendered(val) ==
    CASE val.t \in {"list", "dict"} -> JsonDumps(val)
      [] val.t = "str" -> val.s
      [] val.t = "int" -> IntStr(val.n)
      [] val.t = "bool" -> IF val.n = 1 THEN <<"T", "r", "u", "e">> ELSE <<"F", "a", "l", "s", "e">>
      [] OTHER -> <<"N", "o", "n", "e">>

RECURSIVE LStrip(_, _)
LStrip(str, ch) == IF str # <<>> /\ Head(str) = ch THEN LStrip(Tail(str), ch) ELSE str

RECURSIVE RStrip(_, _)
RStrip(str, ch) == IF str # <<>> /\ str[Len(str)] = ch THEN RStrip(SubSeq(str, 1, Len(str) - 1), ch) ELSE str

\* expr.strip(), the strings here holding no other whitespace than blanks
Strip(str) == RStrip(LStrip(str, " "), " ")

\* str.split("/")
RECURSIVE Split(_, _)
Split(str, acc) == IF str = <<>> THEN <<acc>>
                   ELSE IF Head(str) = "/" THEN <<acc>> \o Split(Tail(str), <<>>)
                   ELSE Split(Tail(str), Append(acc, Head(str)))

\* the token loop of PointerResolver._get_pointer, for tokens that are keys
\* of dicts: cur = cur[key]; a missing key or a value that is no dict raises
RECURSIVE Walk(_, _)
Walk(cur, tokens) ==
    IF tokens = <<>> THEN Ok(cur)
    ELSE IF cur.t = "dict" /\ HasKey(cur, StrV(Head(tokens)))
         THEN Walk(DictGet(cur, StrV(Head(tokens))), Tail(tokens))
    ELSE IF cur.t = "dict" THEN Raised("KeyError")
    ELSE IF cur.t = "list" THEN Raised("ValueError")
    ELSE Raised("TypeError")

\* processor.get(pointer, ctx) for a pointer without prefix: read from source
PointerGet(ptr, source) ==
    IF ptr.t # "str" THEN Raised("AttributeError")
    ELSE IF ptr.s \in {<<>>, <<"/">>, <<".">>} THEN Ok(source)
    ELSE Walk(source, Split(LStrip(ptr.s, "/"), <<>>))

RECURSIVE resolve_expr(_, _)
RECURSIVE FlatFrom(_, _, _)

\* _flat_substitute from position i on
FlatFrom(tmpl, i, source) ==
    IF i > Len(tmpl) THEN <<>>
    ELSE IF Slice(tmpl, i, i + 2) = <<"$", "$", "{">> THEN <<"$", "$", "{">> \o FlatFrom(tmpl, i + 3, source)
    ELSE IF Slice(tmpl, i, i + 1) = <<"$", "$">> THEN <<"$", "$">> \o FlatFrom(tmpl, i + 2, source)
    ELSE IF Slice(tmpl, i, i + 1) = <<"$", "{">>
         THEN LET j == CloseBrace(tmpl, i + 2, 0)
              IN IF j = 0 THEN <<tmpl[i]>> \o FlatFrom(tmpl, i + 1, source)
                 ELSE Rendered(resolve_expr(SubSeq(tmpl, i + 2, j - 1), source))
                          \o FlatFrom(tmpl, j + 1, source)
    ELSE <<tmpl[i]>> \o FlatFrom(tmpl, i + 1, source)

flat_substitute(tmpl, source) == FlatFrom(tmpl, 1, source)

\* _resolve_expr for expressions without caster prefix and without ? prefix:
\* a nested template is expanded, anything else is a pointer into source,
\* None when it does not resolve
resolve_expr(expr, source) ==
    LET e == Strip(expr)
    IN IF has_unescaped_placeholder(e) THEN StrV(flat_substitute(e, source))
       ELSE LET got == PointerGet(StrV(<<"/">> \o LStrip(e, "/")), source)
            IN IF got.k = "ok" THEN got.v ELSE NoneV

\* TemplSubstHandler.execute
TemplSubst(step, source) ==
    IF is_single_expression(step.s)
    THEN Ok(resolve_expr(SubSeq(step.s, 3, Len(step.s) - 1), source))
    ELSE Ok(StrV(flat_substitute(step.s, source)))

\* SpecialMatcher.matches
SpecialMatches(step) == step.t = "dict" /\ \E i \in DOMAIN SpecialKeys : HasKey(step, SpecialKeys[i])

\* ContainerMatcher.matches
ContainerMatches(step) == \/ step.t = "list"
                          \/ step.t = "dict" /\ ~ \E i \in DOMAIN SpecialKeys : HasKey(step, SpecialKeys[i])

\* variant: the identity handler loses its step
IdentityDropsStep(step) == Ok(NoneV)

\* IdentityHandler.execute
IdentityExecute(step) == Ok(step)

\* raw_handler: raise RawValueSignal(node["$raw"])
raw_handler(node) == RawValueSignal(DictGet(node, RawKey))

RECURSIVE process_value(_, _, _)
RECURSIVE Stabilise(_, _, _)
RECURSIVE RunValuePipeline(_, _)
RECURSIVE ref_handler(_, _)
RECURSIVE DescendList(_, _)
RECURSIVE DescendDict(_, _, _, _)

\* ref_handler: the pointer is processed, read from source and, when that
\* fails, replaced by the processed $default
ref_handler(node, source) ==
    LET ptr == process_value(DictGet(node, RefKey), source, FALSE)
    IN IF ptr.k = "raise" THEN ptr
       ELSE LET got == PointerGet(ptr.v, source)
            IN IF got.k = "ok" THEN got
               ELSE IF HasKey(node, DefaultKey) THEN process_value(DictGet(node, DefaultKey), source, TRUE)
               ELSE got

\* SpecialResolveHandler.execute: the first key of specials found in the step
\* decides; a step flagged "$raw": true raises RawValueSignal(result)
SpecialResolve(step, source) ==
    LET i == CHOOSE i \in DOMAIN SpecialKeys :
                 HasKey(step, SpecialKeys[i]) /\ \A j \in 1..(i - 1) : ~ HasKey(step, SpecialKeys[j])
        res == IF SpecialKeys[i] = RefKey THEN ref_handler(step, source) ELSE raw_handler(step)
    IN IF res.k = "ok" /\ HasKey(step, RawKey) /\ DictGet(step, RawKey) = BoolV(TRUE)
       THEN RawValueSignal(res.v)
       ELSE res

\* RecursiveDescentHandler.execute on a list
DescendList(items, source) ==
    IF items = <<>> THEN Ok(ListV(<<>>))
    ELSE LET h == process_value(Head(items), source, FALSE)
         IN IF h.k = "raise" THEN h
            ELSE LET r == DescendList(Tail(items), source)
                 IN IF r.k = "raise" THEN r ELSE Ok(ListV(<<h.v>> \o r.v.items))

\* RecursiveDescentHandler.execute on a dict: keys and values are processed,
\* two keys that collide after substitution raise KeyError
DescendDict(ks, xs, out, source) ==
    IF ks = <<>> THEN Ok(out)
    ELSE LET nk == IF Head(ks).t = "str" THEN process_value(Head(ks), source, FALSE) ELSE Ok(Head(ks))
         IN IF nk.k = "raise" THEN nk
            ELSE IF nk.v.t \in {"list", "dict"} THEN Raised("TypeError")
            ELSE IF HasKey(out, nk.v) THEN Raised("KeyError")
            ELSE LET nv == process_value(Head(xs), source, FALSE)
                 IN IF nv.k = "raise" THEN nv
                    ELSE DescendDict(Tail(ks), Tail(xs), DictSet(out, nk.v, nv.v), source)

\* value_pipeline.run([current], value_ctx): the handler of the first
\* matching node, by priority special, template, container, identity
RunValuePipeline(step, source) ==
    IF SpecialMatches(step) THEN SpecialResolve(step, source)
    ELSE IF TemplMatches(step) THEN TemplSubst(step, source)
    ELSE IF ContainerMatches(step)
         THEN IF step.t = "list" THEN DescendList(step.items, source)
              ELSE DescendDict(step.keys, step.items, DictV(<<>>, <<>>), source)
    ELSE IdentityExecute(step)

\* the stabilisation loop of process_value after n passes
Stabilise(current, n, source) ==
    IF n >= ValueMaxDepth THEN Raised("RecursionError")
    ELSE LET r == RunValuePipeline(current, source)
         IN IF r.k = "signal" THEN Ok(r.v)
            ELSE IF r.k = "raise" THEN r
            ELSE IF PyEq(r.v, current) THEN Ok(current)
            ELSE Stabilise(r.v, n + 1, source)

\* Engine.process_value called by a handler
process_value(value, source, unescape) ==
    LET r == Stabilise(value, 0, source)
    IN IF r.k = "ok" /\ unescape THEN Ok(template_unescape(r.v)) ELSE r

(***************************************************************************)
(* The values and source documents process_value is applied to.            *)
(***************************************************************************)
TmplA == StrV(<<"$", "{", "a", "}">>)
TmplB == StrV(<<"$", "{", "b", "}">>)
PtrA == StrV(<<"/", "a">>)
PtrB == StrV(<<"/", "b">>)
PtrMissing == StrV(<<"/", "c">>)
Final == StrV(<<"f", "i", "n">>)
Escaped == StrV(<<"$", "$">>)
EscapedTmpl == StrV(<<"$", "$", "{", "a", "}">>)

Ref(ptr) == DictV(<<RefKey>>, <<ptr>>)
RefRaw(ptr) == DictV(<<RefKey, RawKey>>, <<ptr, BoolV(TRUE)>>)
Raw(x) == DictV(<<RawKey>>, <<x>>)

SourceValues == {TmplA, TmplB, Ref(PtrA), Ref(PtrB), Final, IntV(1), Escaped}

Sources == {DictV(<<StrV(<<"a">>), StrV(<<"b">>)>>, <<x, y>>) : x \in SourceValues, y \in SourceValues}

\* values without marker key and without template
PlainValues == {Final, Escaped, EscapedTmpl, IntV(1), NoneV,
                ListV(<<Final, DictV(<<StrV(<<"k">>)>>, <<IntV(1)>>)>>),
                ListV(<<Escaped>>),
                DictV(<<StrV(<<"k">>)>>, <<Final>>),
                DictV(<<Escaped>>, <<Final>>)}

RawPayloads == {Final, Escaped, EscapedTmpl, TmplA, Ref(PtrA), Ref(PtrMissing), ListV(<<TmplA, Ref(PtrB)>>)}

ValueInputs ==
    PlainValues
    \cup {Raw(x) : x \in RawPayloads}
    \cup {TmplA, StrV(<<"x", "$", "{", "a", "}">>), StrV(<<"$", "{", "$", "{", "a", "}", "}">>),
          Ref(PtrA), Ref(TmplA), Ref(PtrMissing),
          DictV(<<RefKey, DefaultKey>>, <<PtrMissing, TmplA>>),
          RefRaw(PtrA), ListV(<<RefRaw(PtrA)>>), DictV(<<StrV(<<"o">>)>>, <<RefRaw(PtrA)>>),
          ListV(<<TmplA, Final>>), ListV(<<Raw(TmplA)>>),
          DictV(<<TmplA, TmplB>>, <<IntV(1), IntV(2)>>)}

NoOutcome == [k |-> "none", v |-> NoneV, e |-> ""]

ValueInit == /\ vp \in {[status |-> "loop", value |-> v, source |-> src, current |-> v, passes |-> 0,
                         how |-> "", first |-> NoOutcome, out |-> NoneV, error |-> ""] :
                            v \in ValueInputs, src \in Sources}
             /\ heap = <<>>
             /\ metas = <<>>
             /\ ctxs = <<>>
             /\ stack = <<>>
             /\ exc = NoExc
             /\ pc = "value"
             /\ spec = <<>>
             /\ callerSource = EmptyDoc
             /\ callerDest = EmptyDoc
             /\ result = EmptyDoc
             /\ ev = NoEvent
             /\ functions = <<>>
             /\ callStacks = <<>>
             /\ executed = 0

ValueUnchanged == UNCHANGED <<heap, metas, ctxs, stack, exc, pc, spec, callerSource, callerDest, result,
                              ev, functions, callStacks, executed>>

\* for _ in range(self.value_max_depth): another pass is made
InLoop == vp.status = "loop" /\ vp.passes < ValueMaxDepth

\* the pass of the loop: value_pipeline.run([current], value_ctx)
ThisPass == RunValuePipeline(vp.current, vp.source)

Passed(r) == [vp EXCEPT !.passes = @ + 1, !.first = IF vp.passes = 0 THEN r ELSE @]

\* the pass changed the value: current = value_ctx.dest
ValuePass == /\ InLoop
             /\ ThisPass.k = "ok"
             /\ ~ PyEq(ThisPass.v, vp.current)
             /\ vp' = [Passed(ThisPass) EXCEPT !.current = ThisPass.v]
             /\ ValueUnchanged

\* if value_ctx.dest == current: break
ValueStable == /\ InLoop
               /\ ThisPass.k = "ok"
               /\ PyEq(ThisPass.v, vp.current)
               /\ vp' = [Passed(ThisPass) EXCEPT !.status = "broke", !.how = "stable"]
               /\ ValueUnchanged

\* except PipelineSignal: current = value_ctx.dest; break
ValueSignal == /\ InLoop
               /\ ThisPass.k = "signal"
               /\ vp' = [Passed(ThisPass) EXCEPT !.status = "broke", !.how = "signal", !.current = ThisPass.v]
               /\ ValueUnchanged

\* a handler of the pass raised: the exception leaves process_value
ValueRaise == /\ InLoop
              /\ ThisPass.k = "raise"
              /\ vp' = [Passed(ThisPass) EXCEPT !.status = "raised", !.error = ThisPass.e]
              /\ ValueUnchanged

\* else: raise RecursionError("value_max_depth exceeded")
ValueDepthExceeded == /\ vp.status = "loop"
                      /\ vp.passes >= ValueMaxDepth
                      /\ vp' = [vp EXCEPT !.status = "raised", !.error = "RecursionError"]
                      /\ ValueUnchanged

\* for rule in self._unescape_rules: current = rule.unescape(current)
ApplyUnescapeRules(v) == template_unescape(v)

\* if _unescape: ...; return current
ValueReturn == /\ vp.status = "broke"
               /\ vp' = [vp EXCEPT !.status = "returned", !.out = ApplyUnescapeRules(vp.current)]
               /\ ValueUnchanged

ValueNext == \/ ValuePass
             \/ ValueStable
             \/ ValueSignal
             \/ ValueRaise
             \/ ValueDepthExceeded
             \/ ValueReturn

ValueSpec == ValueInit /\ [][ValueNext]_vars

\* process_value has ended, by returning or by raising
ValueEnded == vp.status \in {"returned", "raised"}

\* what a reference reads: the target of the pointer of a $ref construct, or
\* of the expression of a template that is one placeholder
ReferTarget(v, source) ==
    IF v.t = "dict" /\ HasKey(v, RefKey) THEN PointerGet(DictGet(v, RefKey), source)
    ELSE IF TemplMatches(v) /\ is_single_expression(v.s)
         THEN Ok(resolve_expr(SubSeq(v.s, 3, Len(v.s) - 1), source))
    ELSE Raised("NoReference")

\* the value is a reference whose target is the value itself
SelfReferring(v, source) ==
    /\ ReferTarget(v, source).k = "ok"
    /\ ReferTarget(v, source).v = v

\* the value is a reference to another reference that refers back to it
Oscillating(v, source) ==
    /\ ReferTarget(v, source).k = "ok"
    /\ ReferTarget(v, source).v # v
    /\ ReferTarget(ReferTarget(v, source).v, source) = Ok(v)

\* C16: process_value returns only a stabilised value (the last pass returned
\* its input unchanged, or a RawValueSignal fired), and a value that oscillates
\* or refers to itself raises RecursionError after value_max_depth passes.
C16_StabilisedOrRecursionError ==
    /\ vp.status = "returned" => vp.how \in {"stable", "signal"}
    /\ (ValueEnded /\ (Oscillating(vp.value, vp.source) \/ SelfReferring(vp.value, vp.source)))
          => (vp.status = "raised" /\ vp.error = "RecursionError" /\ vp.passes = ValueMaxDepth)

\* the value is {"$raw": x}
IsRawWrapper(v) == v.t = "dict" /\ v.keys = <<RawKey>>

\* C17: process_value({"$raw": x}) returns exactly x, for every value x.
C17_RawTransparent ==
    (ValueEnded /\ IsRawWrapper(vp.value))
        => (vp.status = "returned" /\ vp.out = DictGet(vp.value, RawKey))

\* the value is a $ref construct carrying "$raw": true
IsFlagged(v) == /\ v.t = "dict"
                /\ HasKey(v, RefKey)
                /\ HasKey(v, RawKey)
                /\ DictGet(v, RawKey) = BoolV(TRUE)

\* the flagged construct the value is, or holds as its only item
FlaggedIn(v) == IF IsFlagged(v) THEN v
                ELSE IF v.t \in {"list", "dict"} /\ Len(v.items) = 1 /\ IsFlagged(v.items[1]) THEN v.items[1]
                ELSE NoneV

\* the value with its flagged construct replaced by r
WithFlaggedAs(v, r) == IF IsFlagged(v) THEN r ELSE [v EXCEPT !.items = <<r>>]

\* C18: when a construct carrying "$raw": true resolves, its first-pass result
\* is what process_value returns: no further pass resolves it.
C18_FlagKeepsFirstPassResult ==
    (/\ ValueEnded
     /\ FlaggedIn(vp.value) # NoneV
     /\ ReferTarget(FlaggedIn(vp.value), vp.source).k = "ok")
        => /\ vp.status = "returned"
           /\ vp.out = WithFlaggedAs(vp.value, ReferTarget(FlaggedIn(vp.value), vp.source).v)

\* the value holds a marker key or a template
RECURSIVE HasMarkerOrTemplate(_)
HasMarkerOrTemplate(v) ==
    \/ TemplMatches(v)
    \/ SpecialMatches(v)
    \/ \E i \in DOMAIN v.keys : HasMarkerOrTemplate(v.keys[i])
    \/ \E i \in DOMAIN v.items : HasMarkerOrTemplate(v.items[i])

\* the value holds the escape sequence $$ in one of its strings
RECURSIVE HasEscape(_)
HasEscape(v) ==
    \/ \E i \in 1..(Len(v.s) - 1) : v.s[i] = "$" /\ v.s[i + 1] = "$"
    \/ \E i \in DOMAIN v.keys : HasEscape(v.keys[i])
    \/ \E i \in DOMAIN v.items : HasEscape(v.items[i])

\* C19 as stated: a value without marker keys and without templates is a fixed
\* point: process_value(v) = v, after one pass of the value pipeline.
C19_PlainValueIsFixedPoint ==
    (ValueEnded /\ ~ HasMarkerOrTemplate(vp.value))
        => (vp.status = "returned" /\ vp.out = vp.value /\ vp.passes = 1)

\* C19 amended: a value without marker keys, without templates and without
\* the escape sequence $$ is a fixed point: process_value(v) = v, after one
\* pass of the value pipeline.
C19_PlainUnescapedValueIsFixedPoint ==
    (ValueEnded /\ ~ HasMarkerOrTemplate(vp.value) /\ ~ HasEscape(vp.value))
        => (vp.status = "returned" /\ vp.out = vp.value /\ vp.passes = 1)

\* a container without marker, template and escape came back after one pass
C19_Witness ==
    /\ vp.status = "returned"
    /\ vp.value.t = "list"
    /\ ~ HasMarkerOrTemplate(vp.value)
    /\ ~ HasEscape(vp.value)
    /\ vp.passes = 1
    /\ vp.out = vp.value

\* C21: a foreach over more than max_foreach_items elements raises before any
\* iteration: no foreach frame, hence no body, ever exists for such an input,
\* and at the raise dest and the handler stack are as the step found them.
C21_ForeachLimitBeforeBody ==
    /\ \A i \in DOMAIN stack :
          stack[i].kind = "foreach" => stack[i].step.n <= MaxForeachItems
    /\ ev.t = "foreach_limit"
          => /\ ev.n > MaxForeachItems
             /\ exc = ForeachSizeError
             /\ stack = ev.stack
             /\ DestDoc(ev.ctx) = ev.before

\* a foreach over MaxForeachItems + 1 elements was refused, inside another body
C21_Witness ==
    /\ ev.t = "foreach_limit"
    /\ ev.n = MaxForeachItems + 1
    /\ Len(stack) > 1
    /\ exc = ForeachSizeError

-----------------------------------------------------------------------------
\* C22: a while loop raises only when its body would run once more than
\* max_loop_iterations times: at the head of the loop, after at most
\* max_loop_iterations body executions and with the condition false, the
\* loop completes and the iteration limit is not raised.
C22_LoopWithinLimitCompletes ==
    [][(/\ AtWhileHead
        /\ Top.i <= MaxLoopIterations
        /\ ~Top.dw
        /\ ~CondVal(Top.ctx, Top.step.cond)) => exc' # LoopLimitError]_vars

-----------------------------------------------------------------------------
(* ActionTypeRegistry.resolve                                              *)

\* priorities of the registered nodes are drawn from 1..MaxPriority
MaxPriority == 2

\* ActionNode(name, priority, matcher, handler, children, exclusive): the matcher is kept as
\* its verdict on the step being resolved, handler "" is None, and children is a registry
\* (the list of its nodes) when hasChildren says that it is not None
ActionNode(name, priority, matches, handler, hasChildren, children, exclusive) ==
    [name |-> name, priority |-> priority, matches |-> matches, handler |-> handler,
     hasChildren |-> hasChildren, children |-> children, exclusive |-> exclusive]

RECURSIVE SortedFrom(_, _)
\* the nodes of priority p and lower, highest priority first, equal priorities in
\* registration order (sorted is stable, also with reverse=True)
SortedFrom(nodes, p) ==
    IF p < 1 THEN <<>>
    ELSE SelectSeq(nodes, LAMBDA n : n.priority = p) \o SortedFrom(nodes, p - 1)

\* variant: the nodes are visited in registration order
InRegistrationOrder(nodes) == nodes

\* sorted(self._nodes, key=lambda n: n.priority, reverse=True)
ByPriorityDesc(nodes) == SortedFrom(nodes, MaxPriority)

\* variant: an exclusive node stops the resolution whatever was collected
ExclusiveStopsAlways(node, handlers) == node.exclusive

\* if node.exclusive and handlers: break
ExclusiveStops(node, handlers) == node.exclusive /\ handlers # <<>>

RECURSIVE resolve(_)
RECURSIVE Collect(_, _)

\* variant: the node's own handler is appended after what its children resolved
OwnHandlerToo(node) ==
    (IF node.hasChildren THEN resolve(node.children) ELSE <<>>)
        \o (IF node.handler # "" THEN <<node.handler>> ELSE <<>>)

\* what a matching node adds to the list: what its children resolve, and its own handler
\* only when that is nothing (node_resolved stays False) and the handler is not None
NodeHandlers(node) ==
    LET sub == IF node.hasChildren THEN resolve(node.children) ELSE <<>>
    IN  IF sub # <<>> THEN sub
        ELSE IF node.handler # "" THEN <<node.handler>> ELSE <<>>

\* the loop of resolve over the sorted nodes that are left, with the handlers collected so far
Collect(order, handlers) ==
    IF order = <<>> THEN handlers
    ELSE LET node == Head(order)
             collected == handlers \o NodeHandlers(node)
         IN  IF ~node.matches THEN Collect(Tail(order), handlers)
             ELSE IF ExclusiveStops(node, collected) THEN collected
             ELSE Collect(Tail(order), collected)

\* ActionTypeRegistry.resolve(step) of the registry holding these nodes
resolve(nodes) == Collect(ByPriorityDesc(nodes), <<>>)

Leaf(name, priority, matches, handler, exclusive) ==
    ActionNode(name, priority, matches, handler, FALSE, <<>>, exclusive)

\* child registries: one that resolves nothing, one whose two nodes both resolve, and one
\* whose exclusive node stops the resolution
ChildMiss == <<Leaf("c1", 2, TRUE, "", TRUE), Leaf("c2", 1, FALSE, "c2", TRUE)>>
ChildBoth == <<Leaf("c1", 1, TRUE, "c1", TRUE), Leaf("c2", 2, TRUE, "c2", FALSE)>>
ChildFirst == <<Leaf("c1", 2, TRUE, "c1", TRUE), Leaf("c2", 1, TRUE, "c2", TRUE)>>
ChildRegistries == {ChildMiss, ChildBoth, ChildFirst}

GroupNodes(name) ==
    { Leaf(name, p, m, h, e) : p \in 1..MaxPriority, m \in BOOLEAN, h \in {"", name}, e \in BOOLEAN }
    \cup { ActionNode(name, p, m, h, TRUE, c, e) :
              p \in 1..MaxPriority, m \in BOOLEAN, h \in {"", name}, c \in ChildRegistries, e \in BOOLEAN }

LeafNodes(name) == { Leaf(name, p, m, name, e) : p \in 1..MaxPriority, m \in BOOLEAN, e \in BOOLEAN }

\* registries of three nodes, in registration order
Registries == { <<a, b, c>> : a \in GroupNodes("h1"), b \in GroupNodes("h2"), c \in LeafNodes("h3") }

Idle == /\ heap = <<>>
        /\ metas = <<>>
        /\ ctxs = <<>>
        /\ stack = <<>>
        /\ exc = NoExc
        /\ spec = <<>>
        /\ callerSource = EmptyDoc
        /\ callerDest = EmptyDoc
        /\ result = EmptyDoc
        /\ ev = NoEvent
        /\ functions = <<>>
        /\ callStacks = <<>>
        /\ executed = 0

\* handlers = []; the loop is about to take the first of the sorted nodes
ResolveInit == /\ vp \in { [status |-> "resolve", nodes |-> r, order |-> ByPriorityDesc(r),
                            handlers |-> <<>>, visits |-> <<>>] : r \in Registries }
               /\ pc = "registry"
               /\ Idle

\* the node the loop takes next
NextNode == Head(vp.order)

Visit(node, added, after) == [node |-> node, added |-> added, after |-> after]

InResolveLoop == vp.status = "resolve" /\ vp.order # <<>>

\* node.matcher.matches(step) is false: the node adds nothing
ResolveSkip == /\ InResolveLoop
               /\ ~NextNode.matches
               /\ vp' = [vp EXCEPT !.order = Tail(@),
                                   !.visits = Append(@, Visit(NextNode, <<>>, vp.handlers))]
               /\ ValueUnchanged

\* the node matches and the loop goes on to the next node
ResolveCollect == /\ InResolveLoop
                  /\ NextNode.matches
                  /\ ~ExclusiveStops(NextNode, vp.handlers \o NodeHandlers(NextNode))
                  /\ vp' = [vp EXCEPT !.order = Tail(@),
                                      !.handlers = @ \o NodeHandlers(NextNode),
                                      !.visits = Append(@, Visit(NextNode, NodeHandlers(NextNode),
                                                                 vp.handlers \o NodeHandlers(NextNode)))]
                  /\ ValueUnchanged

\* the node matches, is exclusive and leaves the list non-empty: break
ResolveBreak == /\ InResolveLoop
                /\ NextNode.matches
                /\ ExclusiveStops(NextNode, vp.handlers \o NodeHandlers(NextNode))
                /\ vp' = [vp EXCEPT !.status = "resolved",
                                    !.handlers = @ \o NodeHandlers(NextNode),
                                    !.visits = Append(@, Visit(NextNode, NodeHandlers(NextNode),
                                                               vp.handlers \o NodeHandlers(NextNode)))]
                /\ ValueUnchanged

\* the sorted nodes are exhausted: return handlers
ResolveReturn == /\ vp.status = "resolve"
                 /\ vp.order = <<>>
                 /\ vp' = [vp EXCEPT !.status = "resolved"]
                 /\ ValueUnchanged

ResolveNext == \/ ResolveSkip
               \/ ResolveCollect
               \/ ResolveBreak
               \/ ResolveReturn

ResolveSpec == ResolveInit /\ [][ResolveNext]_vars

Resolved == pc = "registry" /\ vp.status = "resolved"

Range(seq) == { seq[i] : i \in DOMAIN seq }

ChildrenResolve(node) ==
    /\ node.hasChildren
    /\ \E k \in DOMAIN node.children : node.children[k].matches /\ node.children[k].handler # ""

\* C24: a consulted matching node whose children resolve a handler contributes
\* handlers of its children only, never its own; a node whose children resolve
\* none, or that has no children, contributes exactly its own handler, if it has one.
C24_GroupFallback ==
    \A i \in DOMAIN (IF pc = "registry" THEN vp.visits ELSE <<>>) :
        LET node == vp.visits[i].node
            added == vp.visits[i].added
        IN  node.matches =>
               IF ChildrenResolve(node)
               THEN /\ added # <<>>
                    /\ \A h \in Range(added) :
                          /\ h # node.handler
                          /\ \E k \in DOMAIN node.children :
                                node.children[k].matches /\ node.children[k].handler = h
               ELSE added = IF node.handler # "" THEN <<node.handler>> ELSE <<>>

\* of two groups with a handler of their own, one used its children's handlers and
\* the other, whose children resolved none, fell back to its own
C24_Witness ==
    /\ Resolved
    /\ \E i, j \in DOMAIN vp.visits :
          /\ vp.visits[i].node.handler # "" /\ ChildrenResolve(vp.visits[i].node)
          /\ Len(vp.visits[i].added) = 2
          /\ vp.visits[j].node.handler # "" /\ vp.visits[j].node.hasChildren
          /\ vp.visits[j].added = <<vp.visits[j].node.handler>>

-----------------------------------------------------------------------------
(* StageRegistry.run_all                                                   *)

\* StageNode(name, priority, processor, matcher, children): a processor is "" (None), "ok"
\* or "raises"; a matcher is "none" (None), "never", or "touched", which fires when some
\* processor has already rewritten the step list; children is a registry when hasChildren
StageNode(name, priority, processor, matcher, hasChildren, children) ==
    [name |-> name, priority |-> priority, processor |-> processor, matcher |-> matcher,
     hasChildren |-> hasChildren, children |-> children]

\* sorted(self._nodes, key=lambda n: n.priority, reverse=True)
StagesByPriorityDesc(nodes) == SortedFrom(nodes, MaxPriority)

\* node.matcher is None or node.matcher.matches(steps, ctx)
StageFires(node, steps) ==
    \/ node.matcher = "none"
    \/ node.matcher = "touched" /\ steps # <<>>

ToVisit(nodes) == [k \in DOMAIN nodes |-> [kind |-> "node", node |-> nodes[k]]]

OwnProcessor(node) == IF node.processor # "" THEN <<[kind |-> "apply", node |-> node]>> ELSE <<>>

\* variant: the node's own processor runs before its children
ProcessorFirst(node) ==
    OwnProcessor(node)
        \o (IF node.hasChildren THEN ToVisit(StagesByPriorityDesc(node.children)) ELSE <<>>)

\* what a firing node has run_all do: children.run_all when it has children, then its
\* own processor when it has one
ChildrenFirst(node) ==
    (IF node.hasChildren THEN ToVisit(StagesByPriorityDesc(node.children)) ELSE <<>>)
        \o OwnProcessor(node)

\* processor.apply(steps, ctx) of a processor that returns: the list it was given with
\* its own mark added
Applied(node, steps) == Append(steps, node.name)

StageLeaf(name, priority, processor, matcher) == StageNode(name, priority, processor, matcher, FALSE, <<>>)

StageChildren(a, b) ==
    { <<StageLeaf(a, 1, "ok", "none"), StageLeaf(b, 2, "ok", "none")>>,
      <<StageLeaf(a, 1, "ok", "never"), StageLeaf(b, 2, "ok", "touched")>>,
      <<StageLeaf(a, 2, "raises", "touched"), StageLeaf(b, 1, "ok", "none")>> }

StageGroups(name, a, b) ==
    { StageLeaf(name, p, pr, m) : p \in 1..MaxPriority, pr \in {"", "ok", "raises"},
                                  m \in {"none", "never", "touched"} }
    \cup { StageNode(name, p, pr, m, TRUE, c) :
              p \in 1..MaxPriority, pr \in {"", "ok", "raises"},
              m \in {"none", "never", "touched"}, c \in StageChildren(a, b) }

StageLeaves(name) == { StageLeaf(name, p, "ok", m) : p \in 1..MaxPriority, m \in {"none", "touched"} }

\* stage registries of three nodes, in registration order
StageRegistries == { <<a, b, c>> : a \in StageGroups("s1", "a1", "a2"),
                                   b \in StageGroups("s2", "b1", "b2"),
                                   c \in StageLeaves("s3") }

\* run_all(steps, ctx) is entered with the step list as the caller wrote it
StageInit == /\ vp \in { [status |-> "stages", nodes |-> r, todo |-> ToVisit(StagesByPriorityDesc(r)),
                          steps |-> <<>>, skipped |-> {}, entered |-> {}] : r \in StageRegistries }
             /\ pc = "stages"
             /\ Idle

InRunAll == vp.status = "stages" /\ vp.todo # <<>>

\* the matcher of the next node does not fire: neither its children nor its processor run
StageSkip == /\ InRunAll
             /\ Head(vp.todo).kind = "node"
             /\ ~StageFires(Head(vp.todo).node, vp.steps)
             /\ vp' = [vp EXCEPT !.todo = Tail(@), !.skipped = @ \cup {Head(vp.todo).node.name}]
             /\ ValueUnchanged

\* the next node fires: its children are run, then its own processor
StageEnter == /\ InRunAll
              /\ Head(vp.todo).kind = "node"
              /\ StageFires(Head(vp.todo).node, vp.steps)
              /\ vp' = [vp EXCEPT !.todo = ChildrenFirst(Head(vp.todo).node) \o Tail(@),
                                  !.entered = @ \cup {Head(vp.todo).node.name}]
              /\ ValueUnchanged

\* steps = node.processor.apply(steps, ctx)
StageApply == /\ InRunAll
              /\ Head(vp.todo).kind = "apply"
              /\ Head(vp.todo).node.processor = "ok"
              /\ vp' = [vp EXCEPT !.todo = Tail(@), !.steps = Applied(Head(vp.todo).node, @)]
              /\ ValueUnchanged

\* node.processor.apply raises: the error leaves run_all
StageRaise == /\ InRunAll
              /\ Head(vp.todo).kind = "apply"
              /\ Head(vp.todo).node.processor = "raises"
              /\ vp' = [vp EXCEPT !.status = "raised"]
              /\ ValueUnchanged

\* return steps
StageReturn == /\ vp.status = "stages"
               /\ vp.todo = <<>>
               /\ vp' = [vp EXCEPT !.status = "returned"]
               /\ ValueUnchanged

StageNext == \/ StageSkip
             \/ StageEnter
             \/ StageApply
             \/ StageRaise
             \/ StageReturn

StageSpec == StageInit /\ [][StageNext]_vars

\* the place of a processor's mark in the step list, 0 when it has not run
Pos(name) == IF \E i \in DOMAIN vp.steps : vp.steps[i] = name
             THEN CHOOSE i \in DOMAIN vp.steps : vp.steps[i] = name
             ELSE 0

Ran(name) == Pos(name) > 0

Consulted(name) == name \in vp.entered \cup vp.skipped

\* a consulted node was entered exactly when its matcher allowed it, and an entered node
\* whose processor returns has run
RanIfFired(n) ==
    /\ Consulted(n.name)
    /\ n.matcher = "none" => n.name \in vp.entered
    /\ n.matcher = "never" => n.name \in vp.skipped
    /\ (n.name \in vp.entered /\ n.processor = "ok") => Ran(n.name)

\* C25: run_all runs the processors in descending priority, a node's children before
\* the node's own processor and after every node of higher priority, each processor
\* receiving the list the previous one returned; a node whose matcher does not fire
\* is skipped with all its children; and when run_all returns every node has been
\* consulted and every node whose matcher fired has run: none was cut off by another.
C25_RunAllRunsEveryFiringNode ==
    pc = "stages" =>
        LET top == Range(vp.nodes)
            kids(n) == Range(n.children)
        IN  /\ \A i, j \in DOMAIN vp.steps : vp.steps[i] = vp.steps[j] => i = j
            /\ \A a, b \in top :
                  (a.priority > b.priority /\ Ran(a.name) /\ Ran(b.name)) => Pos(a.name) < Pos(b.name)
            /\ \A n \in top : \A c \in kids(n) :
                  /\ (Ran(c.name) /\ Ran(n.name)) => Pos(c.name) < Pos(n.name)
                  /\ \A d \in kids(n) :
                        (c.priority > d.priority /\ Ran(c.name) /\ Ran(d.name)) => Pos(c.name) < Pos(d.name)
                  /\ \A a \in top :
                        /\ (a.priority > n.priority /\ Ran(a.name) /\ Ran(c.name)) => Pos(a.name) < Pos(c.name)
                        /\ (a.priority < n.priority /\ Ran(a.name) /\ Ran(c.name)) => Pos(c.name) < Pos(a.name)
            /\ \A n \in top :
                  (n.matcher = "never" \/ n.name \in vp.skipped)
                      => /\ ~Ran(n.name)
                         /\ \A c \in kids(n) : ~Ran(c.name) /\ ~Consulted(c.name)
            /\ vp.status = "returned"
                  => \A n \in top :
                        /\ RanIfFired(n)
                        /\ n.name \in vp.entered => \A c \in kids(n) : RanIfFired(c)

\* run_all returned after a group ran both its children and then its own processor,
\* while another group was skipped together with its children
C25_Witness ==
    /\ pc = "stages"
    /\ vp.status = "returned"
    /\ \E n, m \in Range(vp.nodes) :
          /\ n.hasChildren /\ Ran(n.name)
          /\ \A c \in Range(n.children) : Ran(c.name) /\ Pos(c.name) < Pos(n.name)
          /\ m.hasChildren /\ m.name \in vp.skipped /\ m.processor = "ok"

-----------------------------------------------------------------------------
(* Shorthand stages                                                        *)

RECURSIVE Flatten(_)
\* out.extend(...) over a list of lists
Flatten(lists) == IF lists = <<>> THEN <<>> ELSE Head(lists) \o Flatten(Tail(lists))

\* a step with an "op" key; origin is the path it addresses
OpStep(op, path) == [kind |-> "op", op |-> op, path |-> path]

\* a mapping without "op": its entries in the order of the dict
Shorthand(entries) == [kind |-> "short", entries |-> entries]

\* isinstance(step, Mapping) and "op" not in step
IsShorthand(step) == step.kind = "short"

HasShorthandKey(step, keys) == \E k \in DOMAIN step.entries : step.entries[k].key \in keys

\* AssertShorthandMatcher.matches
AssertShorthandMatcher(steps) ==
    \E k \in DOMAIN steps : IsShorthand(steps[k]) /\ HasShorthandKey(steps[k], {"~assert", "~assertD"})

\* DeleteShorthandMatcher.matches
DeleteShorthandMatcher(steps) ==
    \E k \in DOMAIN steps : IsShorthand(steps[k]) /\ HasShorthandKey(steps[k], {"~delete"})

\* AssignShorthandMatcher.matches
AssignShorthandMatcher(steps) == \E k \in DOMAIN steps : IsShorthand(steps[k])

\* the value of a ~assert, ~assertD or ~delete key as a list of paths: a list as it is,
\* the keys of a mapping in their order, a scalar as a list of one
PathsOf(value) == IF value.t = "scalar" THEN <<value.path>> ELSE value.paths

\* the steps one entry of a shorthand object is expanded to by the stage owning these keys
ExpandEntry(entry) ==
    LET op == IF entry.key = "~assertD" THEN "assertD"
              ELSE IF entry.key = "~assert" THEN "assert" ELSE "delete"
    IN  [k \in DOMAIN PathsOf(entry.value) |->
            IF entry.value.t = "map" /\ entry.key # "~delete"
            THEN [OpStep(op, PathsOf(entry.value)[k]) EXCEPT !.op = op] @@ [equals |-> entry.value.eq]
            ELSE OpStep(op, PathsOf(entry.value)[k])]

\* variant: the remaining keys are put before the expansions
ExtractRemainingFirst(step, keys) ==
    IF ~IsShorthand(step) THEN <<step>>
    ELSE LET mine == SelectSeq(step.entries, LAMBDA e : e.key \in keys)
             remaining == SelectSeq(step.entries, LAMBDA e : e.key \notin keys)
         IN  (IF remaining # <<>> THEN <<Shorthand(remaining)>> ELSE <<>>)
                \o Flatten([k \in DOMAIN mine |-> ExpandEntry(mine[k])])

\* the loop over one step shared by AssertShorthandProcessor.apply and
\* DeleteShorthandProcessor.apply: the expansions of the stage's keys, then the remaining
\* keys as one mapping when there are any
Extract(step, keys) ==
    IF ~IsShorthand(step) THEN <<step>>
    ELSE LET mine == SelectSeq(step.entries, LAMBDA e : e.key \in keys)
             remaining == SelectSeq(step.entries, LAMBDA e : e.key \notin keys)
         IN  Flatten([k \in DOMAIN mine |-> ExpandEntry(mine[k])])
                \o (IF remaining # <<>> THEN <<Shorthand(remaining)>> ELSE <<>>)

\* AssertShorthandProcessor.apply
AssertShorthandProcessor(steps) ==
    Flatten([k \in DOMAIN steps |-> Extract(steps[k], {"~assert", "~assertD"})])

\* DeleteShorthandProcessor.apply
DeleteShorthandProcessor(steps) ==
    Flatten([k \in DOMAIN steps |-> Extract(steps[k], {"~delete"})])

\* one remaining key: key[] appends (path key[:-2] + "/-"), a string value starting
\* with "/" is copied, anything else is set
Assign(entry) ==
    LET dst == IF entry.append THEN [entry.path EXCEPT !.end = "/-"] ELSE entry.path
    IN  IF entry.value.t = "pointer"
        THEN OpStep("copy", dst) @@ [from |-> entry.value.path, ignore_missing |-> TRUE]
        ELSE OpStep("set", dst) @@ [value |-> entry.value]

\* AssignShorthandProcessor.apply: every key left in a mapping becomes a step, an empty
\* mapping is dropped
AssignShorthandProcessor(steps) ==
    Flatten([k \in DOMAIN steps |->
                IF IsShorthand(steps[k])
                THEN [j \in DOMAIN steps[k].entries |-> Assign(steps[k].entries[j])]
                ELSE <<steps[k]>>])

\* build_default_shorthand_stages
DefaultShorthandStages ==
    <<[name |-> "assert_shorthand", priority |-> 100],
      [name |-> "delete_shorthand", priority |-> 50],
      [name |-> "assign_shorthand", priority |-> 0]>>

RECURSIVE SortDesc(_)
\* sorted(nodes, key=priority, reverse=True): stable selection of the highest priority
SortDesc(nodes) ==
    IF nodes = <<>> THEN <<>>
    ELSE LET k == CHOOSE k \in DOMAIN nodes :
                     /\ \A j \in DOMAIN nodes : nodes[j].priority <= nodes[k].priority
                     /\ \A j \in 1..(k - 1) : nodes[j].priority < nodes[k].priority
         IN  <<nodes[k]>> \o SortDesc([j \in 1..(Len(nodes) - 1) |-> IF j < k THEN nodes[j] ELSE nodes[j + 1]])

StageMatches(name, steps) ==
    IF name = "assert_shorthand" THEN AssertShorthandMatcher(steps)
    ELSE IF name = "delete_shorthand" THEN DeleteShorthandMatcher(steps)
    ELSE AssignShorthandMatcher(steps)

StageApplied(name, steps) ==
    IF name = "assert_shorthand" THEN AssertShorthandProcessor(steps)
    ELSE IF name = "delete_shorthand" THEN DeleteShorthandProcessor(steps)
    ELSE AssignShorthandProcessor(steps)

\* a path that tells which step of the caller's list it was written in, under which key
PathIn(i, key, n) == [step |-> i, key |-> key, n |-> n, end |-> ""]

\* the entries a shorthand object written as step i can have
EntriesOf(i) ==
    { [key |-> "~assert", value |-> [t |-> "list", paths |-> <<PathIn(i, "~assert", 1), PathIn(i, "~assert", 2)>>]],
      [key |-> "~assert", value |-> [t |-> "scalar", path |-> PathIn(i, "~assert", 1)]],
      [key |-> "~assertD", value |-> [t |-> "map", paths |-> <<PathIn(i, "~assertD", 1)>>, eq |-> 1]],
      [key |-> "~delete", value |-> [t |-> "list", paths |-> <<PathIn(i, "~delete", 1), PathIn(i, "~delete", 2)>>]],
      [key |-> "~delete", value |-> [t |-> "scalar", path |-> PathIn(i, "~delete", 1)]],
      [key |-> "/a", path |-> PathIn(i, "/a", 1), append |-> FALSE, value |-> [t |-> "literal", v |-> 1]],
      [key |-> "/b[]", path |-> PathIn(i, "/b", 1), append |-> TRUE,
       value |-> [t |-> "pointer", path |-> PathIn(i, "from", 1)]] }

\* a dict holds a key once
DistinctKeys(entries) == \A j, k \in DOMAIN entries : entries[j].key = entries[k].key => j = k

\* the steps a caller can write at place i: a step with an "op", the empty mapping, and
\* the shorthand objects of up to n keys in every order
StepsAt(i, n) ==
    { OpStep("set", PathIn(i, "op", 1)), Shorthand(<<>>) }
    \cup { Shorthand(e) : e \in { x \in UNION { [1..m -> EntriesOf(i)] : m \in 1..n } : DistinctKeys(x) } }

\* lists of two steps: a shorthand object of up to four keys next to a plain step, and
\* two shorthand objects of up to two keys
StepLists ==
    { <<a, b>> : a \in StepsAt(1, 4), b \in StepsAt(2, 0) }
    \cup { <<a, b>> : a \in StepsAt(1, 0), b \in StepsAt(2, 4) }
    \cup { <<a, b>> : a \in StepsAt(1, 2), b \in StepsAt(2, 2) }

\* steps = spec if isinstance(spec, list) else [spec]; the stages are about to run
ShorthandInit ==
    /\ vp \in { [status |-> "stages", spec |-> sp, steps |-> sp,
                 stages |-> SortDesc(DefaultShorthandStages), ran |-> <<>>,
                 expanded |-> <<>>, dest |-> <<>>, saw |-> <<>>, failed |-> 0] : sp \in StepLists }
    /\ pc = "shorthand"
    /\ Idle

InStages == vp.status = "stages" /\ vp.stages # <<>>

\* the matcher of the next stage does not fire
ShorthandSkip == /\ InStages
                 /\ ~StageMatches(Head(vp.stages).name, vp.steps)
                 /\ vp' = [vp EXCEPT !.stages = Tail(@)]
                 /\ ValueUnchanged

\* steps = node.processor.apply(steps, ctx) of the next stage
ShorthandApply == /\ InStages
                  /\ StageMatches(Head(vp.stages).name, vp.steps)
                  /\ vp' = [vp EXCEPT !.stages = Tail(@),
                                      !.steps = StageApplied(Head(vp.stages).name, @)]
                  /\ ValueUnchanged

\* run_all returns and the loop of Pipeline.run over the steps begins (expanded keeps
\* the list run_all returned)
ShorthandExpanded == /\ vp.status = "stages"
                     /\ vp.stages = <<>>
                     /\ vp' = [vp EXCEPT !.status = "running", !.expanded = vp.steps]
                     /\ ValueUnchanged

NextStepLast(steps) == steps[Len(steps)]

\* for step in steps: the loop takes the steps from the front of the list
NextStep(steps) == Head(steps)

\* what a handler makes of the dest it is given: the dest is known by the steps that
\* have written it, in order
Executed(step, dest) == Append(dest, step)

\* for step in steps: the next step is handed to its handler with the dest the
\* context holds (saw), and ctx.dest = handler.execute(step, ctx)
ShorthandRunStep == /\ vp.status = "running"
                    /\ vp.steps # <<>>
                    /\ vp' = [vp EXCEPT !.steps = Tail(@), !.ran = Append(@, NextStep(vp.steps)),
                                        !.saw = Append(@, vp.dest),
                                        !.dest = Executed(NextStep(vp.steps), @)]
                    /\ ValueUnchanged

\* the handler of the next step raises a plain error: it leaves the loop and run
ShorthandStepRaise == /\ vp.status = "running"
                      /\ vp.steps # <<>>
                      /\ vp' = [vp EXCEPT !.ran = Append(@, NextStep(vp.steps)),
                                          !.saw = Append(@, vp.dest),
                                          !.status = "raised", !.failed = Len(vp.ran) + 1]
                      /\ ValueUnchanged

ShorthandNext == \/ ShorthandSkip
                 \/ ShorthandApply
                 \/ ShorthandExpanded
                 \/ ShorthandRunStep
                 \/ ShorthandStepRaise

ShorthandSpec == ShorthandInit /\ [][ShorthandNext]_vars

\* assertions first, deletions second, assignments last
Rank(step) == IF step.op \in {"assert", "assertD"} THEN 1
              ELSE IF step.op = "delete" THEN 2 ELSE 3

\* the paths written under the keys of the caller's step
WrittenIn(step) ==
    IF ~IsShorthand(step) THEN {step.path}
    ELSE UNION { IF "path" \in DOMAIN step.entries[k]
                 THEN {step.entries[k].path}
                 ELSE Range(PathsOf(step.entries[k].value)) : k \in DOMAIN step.entries }

ShorthandDone == pc = "shorthand" /\ vp.status = "running" /\ vp.steps = <<>>

\* C26: of the steps a single shorthand object expands to, the assertions run before
\* the deletions and the deletions before the assignments, whatever the order of the
\* keys in the object; steps written in separate places of the list run in the order
\* of those places; and every entry written runs exactly once.
C26_AssertDeleteAssignOrder ==
    pc = "shorthand" =>
        /\ \A i, j \in DOMAIN vp.ran :
              i < j => /\ vp.ran[i].path.step <= vp.ran[j].path.step
                       /\ vp.ran[i].path.step = vp.ran[j].path.step => Rank(vp.ran[i]) <= Rank(vp.ran[j])
        /\ \A i \in DOMAIN vp.ran : vp.ran[i].kind = "op"
        /\ ShorthandDone =>
              /\ \A k \in DOMAIN vp.spec : \A p \in WrittenIn(vp.spec[k]) :
                    \E i \in DOMAIN vp.ran :
                       /\ [vp.ran[i].path EXCEPT !.end = ""] = p
                       /\ \A j \in DOMAIN vp.ran : [vp.ran[j].path EXCEPT !.end = ""] = p => j = i
              /\ Len(vp.ran) = Cardinality(UNION { WrittenIn(vp.spec[k]) : k \in DOMAIN vp.spec })

\* an object written with its assignment first, its deletion second and its assertion
\* last has run as assertion, deletion, assignment, before the step that follows it
C26_Witness ==
    /\ ShorthandDone
    /\ IsShorthand(vp.spec[1])
    /\ Len(vp.spec[1].entries) = 3
    /\ vp.spec[1].entries[1].key = "/b[]"
    /\ vp.spec[1].entries[2].key = "~delete"
    /\ vp.spec[1].entries[3].key = "~assert"
    /\ Len(vp.ran) >= 4
    /\ vp.ran[1].op = "assert"
    /\ vp.ran[Len(vp.ran) - 1].op = "copy"
    /\ vp.ran[Len(vp.ran)].path.step = 2

-----------------------------------------------------------------------------
(* PointerProcessor.set and PointerProcessor.delete                        *)

\* set and delete calls made on one context
MaxWrites == 2

\* clean_path: a pointer starting with "@:" or "_:" loses these two characters and the
\* slashes after them and gets one leading slash; any other pointer is left as it is
CleanPath(pointer) ==
    IF StartsWith(pointer, <<"@", ":">>) \/ StartsWith(pointer, <<"_", ":">>)
    THEN <<"/">> \o LStrip(Slice(pointer, 3, Len(pointer)), "/")
    ELSE pointer

\* PointerResolver._ensure_parent with create=True followed by parent[leaf] = value, on
\* documents made of dicts: a missing key on the way becomes {}, a value on the way
\* that is no dict raises
RECURSIVE SetAt(_, _, _)
SetAt(cur, parts, value) ==
    IF cur.t # "dict" THEN Raised("TypeError")
    ELSE IF Len(parts) = 1 THEN Ok(DictSet(cur, StrV(Head(parts)), value))
    ELSE LET key == StrV(Head(parts))
             child == IF HasKey(cur, key) THEN DictGet(cur, key) ELSE DictV(<<>>, <<>>)
             below == SetAt(child, Tail(parts), value)
         IN  IF below.k = "ok" THEN Ok(DictSet(cur, key, below.v)) ELSE below

\* PointerResolver.set(path, data, value); the root paths return the value, which
\* PointerProcessor.set drops, so that data stays as it was
ResolverSet(path, data, value) ==
    IF path \in {<<>>, <<"/">>, <<".">>} THEN Ok(data)
    ELSE SetAt(data, Split(LStrip(path, "/"), <<>>), value)

\* del d[k] on a dict
DictDel(d, k) ==
    LET at == KeyIndex(d.keys, k)
        keep == { j \in DOMAIN d.keys : j # at }
        Nth(j) == IF j < at THEN j ELSE j + 1
    IN  DictV([j \in 1..(Len(d.keys) - 1) |-> d.keys[Nth(j)]],
              [j \in 1..(Len(d.keys) - 1) |-> d.items[Nth(j)]])

\* PointerResolver._ensure_parent with create=False followed by del parent[leaf]
RECURSIVE DeleteAt(_, _)
DeleteAt(cur, parts) ==
    IF cur.t # "dict" THEN Raised("TypeError")
    ELSE IF ~HasKey(cur, StrV(Head(parts))) THEN Raised("KeyError")
    ELSE IF Len(parts) = 1 THEN Ok(DictDel(cur, StrV(Head(parts))))
    ELSE LET below == DeleteAt(DictGet(cur, StrV(Head(parts))), Tail(parts))
         IN  IF below.k = "ok" THEN Ok(DictSet(cur, StrV(Head(parts)), below.v)) ELSE below

\* PointerResolver.delete(path, data)
ResolverDelete(path, data) == DeleteAt(data, Split(LStrip(path, "/"), <<>>))

\* self.exists("@:" + clean_path, ctx): the path is looked up in dest
ExistsInDest(clean_path, dest) == PointerGet(StrV(clean_path), dest).k = "ok"

\* the prefixes a pointer can be written with, and the paths after them
Prefixes == { <<>>, <<"@", ":">>, <<"_", ":">>, <<"&", ":">>, <<"!", ":">> }
Paths == { <<"/", "x">>, <<"/", "a", "/", "b">>, <<"/", "x", "/", "w">> }

Doc1(k, v) == DictV(<<StrV(<<k>>)>>, <<v>>)
SourceDoc == DictV(<<StrV(<<"x">>), StrV(<<"a">>)>>, <<IntV(0), Doc1("b", IntV(0))>>)
DestDocs == { DictV(<<>>, <<>>), DictV(<<StrV(<<"x">>), StrV(<<"a">>)>>, <<IntV(5), Doc1("b", IntV(5))>>) }

NoWrite == [op |-> "", prefix |-> <<>>, path |-> <<>>, outcome |-> "", before |-> NoneV]

PointerInit == /\ vp \in { [status |-> "pointer", source |-> SourceDoc, dest |-> d, writes |-> 0,
                            last |-> NoWrite] : d \in DestDocs }
               /\ pc = "pointer"
               /\ Idle

CanWrite == vp.status = "pointer" /\ vp.writes < MaxWrites

Wrote(op, prefix, path, outcome) ==
    [op |-> op, prefix |-> prefix, path |-> path, outcome |-> outcome, before |-> vp.dest]

\* processor.set(pointer, ctx, value) writes the value 1
PointerSet ==
    /\ CanWrite
    /\ \E prefix \in Prefixes, path \in Paths :
          LET r == ResolverSet(CleanPath(prefix \o path), vp.dest, IntV(1))
          IN  /\ r.k = "ok"
              /\ vp' = [vp EXCEPT !.dest = r.v, !.writes = @ + 1, !.last = Wrote("set", prefix, path, "ok")]
    /\ ValueUnchanged

\* resolver.set raises: a value on the way to the leaf is no dict
PointerSetRaise ==
    /\ CanWrite
    /\ \E prefix \in Prefixes, path \in Paths :
          /\ ResolverSet(CleanPath(prefix \o path), vp.dest, IntV(1)).k # "ok"
          /\ vp' = [vp EXCEPT !.writes = @ + 1, !.last = Wrote("set", prefix, path, "raise")]
    /\ ValueUnchanged

\* processor.delete(pointer, ctx, ignore_missing) removes the path from dest
PointerDelete ==
    /\ CanWrite
    /\ \E prefix \in Prefixes, path \in Paths, ignore_missing \in BOOLEAN :
          LET r == ResolverDelete(CleanPath(prefix \o path), vp.dest)
          IN  /\ ~(ignore_missing /\ ~ExistsInDest(CleanPath(prefix \o path), vp.dest))
              /\ r.k = "ok"
              /\ vp' = [vp EXCEPT !.dest = r.v, !.writes = @ + 1, !.last = Wrote("delete", prefix, path, "ok")]
    /\ ValueUnchanged

\* ignore_missing and the path is not in dest: return
PointerDeleteIgnored ==
    /\ CanWrite
    /\ \E prefix \in Prefixes, path \in Paths :
          /\ ~ExistsInDest(CleanPath(prefix \o path), vp.dest)
          /\ vp' = [vp EXCEPT !.writes = @ + 1, !.last = Wrote("delete", prefix, path, "ignored")]
    /\ ValueUnchanged

\* resolver.delete raises on a path that is not in dest
PointerDeleteRaise ==
    /\ CanWrite
    /\ \E prefix \in Prefixes, path \in Paths :
          /\ ResolverDelete(CleanPath(prefix \o path), vp.dest).k # "ok"
          /\ vp' = [vp EXCEPT !.writes = @ + 1, !.last = Wrote("delete", prefix, path, "raise")]
    /\ ValueUnchanged

PointerNext == \/ PointerSet
               \/ PointerSetRaise
               \/ PointerDelete
               \/ PointerDeleteIgnored
               \/ PointerDeleteRaise

PointerSpec == PointerInit /\ [][PointerNext]_vars

\* C27: a set that succeeds through a pointer whose prefix is neither @: nor !: leaves
\* the value in dest at the path that follows the prefix, a delete that succeeds leaves
\* nothing there, and neither changes source.
C27_WritesStripSourceLikePrefix ==
    (pc = "pointer" /\ vp.last.outcome = "ok" /\ vp.last.prefix \notin {<<"@", ":">>, <<"!", ":">>})
        => /\ vp.source = SourceDoc
           /\ vp.last.op = "set" => PointerGet(StrV(vp.last.path), vp.dest) = Ok(IntV(1))
           /\ vp.last.op = "delete" => PointerGet(StrV(vp.last.path), vp.dest).k # "ok"

-----------------------------------------------------------------------------
(* $def and $func over several calls of one engine                         *)

\* one call of the engine: apply builds a context of its own, apply_to_context runs in
\* the context its caller holds; the steps define or call the function f
EngineCall(how, steps) == [how |-> how, steps |-> steps]

FnSteps == { <<"def">>, <<"call">>, <<"def", "call">>, <<"call", "def">> }

EngineCalls == { EngineCall(how, st) : how \in {"apply", "apply_to_context"}, st \in FnSteps }

\* variant: every context of the engine is given the same metadata dict
SharedMetadata(metadata) == 1

\* ExecutionContext(source, dest, engine): metadata is a dict of its own, made by
\* default_factory; the place it takes among the metadata dicts that exist
NewMetadata(metadata) == Len(metadata) + 1

\* a caller that is not in a call
NotCalling(t) == [thread |-> t, call |-> 0, how |-> "", meta |-> 0, steps |-> <<>>]

\* two callers of one engine: each holds a context of its own for apply_to_context, the
\* metadata dicts 1 and 2; the first makes two calls, the second one
FnInit == /\ vp \in { [status |-> "functions", metadata |-> <<{}, {}>>,
                       todo |-> <<<<a, b>>, <<c>>>>,
                       now |-> <<NotCalling(1), NotCalling(2)>>, made |-> <<0, 0>>,
                       seen |-> {}, failed |-> {}] :
                         a \in EngineCalls, b \in EngineCalls, c \in EngineCalls }
          /\ pc = "functions"
          /\ Idle

Callers == {1, 2}

Starting(t, how) == /\ vp.status = "functions"
                    /\ vp.now[t].call = 0
                    /\ vp.todo[t] # <<>>
                    /\ Head(vp.todo[t]).how = how

Begun(t, meta) == [thread |-> t, call |-> vp.made[t] + 1, how |-> Head(vp.todo[t]).how,
                   meta |-> meta, steps |-> Head(vp.todo[t]).steps]

\* Engine.apply: the call runs in a new context
FnApply == \E t \in Callers :
              /\ Starting(t, "apply")
              /\ vp' = [vp EXCEPT !.metadata = IF NewMetadata(@) > Len(@) THEN Append(@, {}) ELSE @,
                                  !.todo[t] = Tail(@), !.made[t] = @ + 1,
                                  !.now[t] = Begun(t, NewMetadata(vp.metadata))]
              /\ ValueUnchanged

\* Engine.apply_to_context: the call runs in the context the caller holds
FnApplyToContext == \E t \in Callers :
                       /\ Starting(t, "apply_to_context")
                       /\ vp' = [vp EXCEPT !.todo[t] = Tail(@), !.made[t] = @ + 1, !.now[t] = Begun(t, t)]
                       /\ ValueUnchanged

InCall(t, step) == /\ vp.status = "functions"
                   /\ vp.now[t].call # 0
                   /\ vp.now[t].steps # <<>>
                   /\ Head(vp.now[t].steps) = step

\* DefHandler.execute: ctx.metadata["__functions__"][function_name] = function
FnDef == \E t \in Callers :
            /\ InCall(t, "def")
            /\ vp' = [vp EXCEPT !.metadata[vp.now[t].meta] = {[thread |-> t, call |-> vp.now[t].call,
                                                               meta |-> vp.now[t].meta]},
                                !.now[t].steps = Tail(@)]
            /\ ValueUnchanged

\* CallHandler.execute: functions = ctx.metadata.get("__functions__", {}) holds the name
FnCall == \E t \in Callers :
             /\ InCall(t, "call")
             /\ \E fn \in vp.metadata[vp.now[t].meta] :
                   vp' = [vp EXCEPT !.seen = @ \cup {[by |-> vp.now[t], fn |-> fn]},
                                    !.now[t].steps = Tail(@)]
             /\ ValueUnchanged

\* function_name not in functions: ValueError, which ends the call
FnCallUndefined == \E t \in Callers :
                      /\ InCall(t, "call")
                      /\ vp.metadata[vp.now[t].meta] = {}
                      /\ vp' = [vp EXCEPT !.failed = @ \cup {vp.now[t]},
                                          !.now[t] = NotCalling(t)]
                      /\ ValueUnchanged

\* the steps of the call are done: it returns
FnReturn == \E t \in Callers :
               /\ vp.status = "functions"
               /\ vp.now[t].call # 0
               /\ vp.now[t].steps = <<>>
               /\ vp' = [vp EXCEPT !.now[t] = NotCalling(t)]
               /\ ValueUnchanged

FnNext == \/ FnApply
          \/ FnApplyToContext
          \/ FnDef
          \/ FnCall
          \/ FnCallUndefined
          \/ FnReturn

FnSpec == FnInit /\ [][FnNext]_vars

\* C28: a $func only ever finds a definition made by its own caller in the context
\* the call runs in: for a call of apply, a definition made earlier in that same
\* call; for a call of apply_to_context, one made in that call or in an earlier call
\* on the same context. A $func that finds no such definition fails, whatever other
\* calls of the engine have defined meanwhile.
C28_DefinitionsStayInTheirContext ==
    pc = "functions" =>
        /\ \A s \in vp.seen :
              /\ s.fn.thread = s.by.thread
              /\ s.fn.meta = s.by.meta
              /\ s.fn.call <= s.by.call
              /\ s.by.how = "apply" => s.fn.call = s.by.call
        /\ \A t \in Callers :
              (vp.now[t].call # 0 /\ vp.now[t].how = "apply")
                 => \A fn \in vp.metadata[vp.now[t].meta] : fn.thread = t /\ fn.call = vp.now[t].call
        /\ \A f \in vp.failed : f.steps # <<>> /\ Head(f.steps) = "call"

\* while the first caller held a definition in its context, the second caller's apply
\* failed on the same name; and the first caller's second call, through
\* apply_to_context, found the definition its first call had made
C28_Witness ==
    /\ pc = "functions"
    /\ \E f \in vp.failed : f.thread = 2 /\ f.how = "apply"
    /\ vp.metadata[1] # {}
    /\ \E s \in vp.seen : s.by.thread = 1 /\ s.by.call = 2 /\ s.fn.call = 1

-----------------------------------------------------------------------------
\* A function called as a value: {"op": "set", "path": "/result", "value": {"$func": f}}.
\* process_value hands the node to the value pipeline in a context whose metadata is
\* a copy of the caller's, CallHandler.execute stores _current_call_ctx in that copy,
\* and the closure made by DefHandler.execute looks it up in the metadata of the
\* defining context.

ValueCallKeys == {"outer", "internal", "leak"}

\* a dest document: the value under each key, 0 where the key is absent
ValueCallEmpty == [k \in ValueCallKeys |-> 0]

ValueCallSetStep(k, v) == [op |-> "set", key |-> k, value |-> v]

ValueCallRaiseStep == [op |-> "raise"]

ValueCallBodies == {<<ValueCallSetStep("internal", 2)>>,
                    <<ValueCallSetStep("outer", 2)>>,
                    <<ValueCallSetStep("internal", 2), ValueCallRaiseStep>>,
                    <<ValueCallRaiseStep>>}

ValueCallOnFailures == {<<ValueCallSetStep("leak", 2)>>,
                        <<ValueCallSetStep("leak", 2), ValueCallRaiseStep>>}

\* step.get("context", "copy"): "other" stands for any unrecognised value
ValueCallContexts == {"copy", "new", "shared", "other"}

ValueCallDefs == [context : ValueCallContexts, body : ValueCallBodies,
                  hasFail : {FALSE}, on_failure : {<<>>}]
                 \cup [context : ValueCallContexts, body : ValueCallBodies,
                       hasFail : {TRUE}, on_failure : ValueCallOnFailures]

ValueCallDests == {ValueCallEmpty, [ValueCallEmpty EXCEPT !["outer"] = 1]}

\* the caller's context is context 1 and its dest is object 1 of the heap; the
\* definition was made in the caller's context
ValueCallInit == /\ Idle
                 /\ pc = "valuecall"
                 /\ \E d \in ValueCallDests, fn \in ValueCallDefs :
                       vp = [status |-> "ready", heap |-> <<d>>, fn |-> fn,
                             ctxDest |-> <<1>>, callerCallCtx |-> 0, valueCallCtx |-> 0,
                             cur |-> 0, todo |-> <<>>, before |-> d, start |-> d,
                             out |-> ValueCallEmpty, bodyDest |-> 0]

\* call_ctx = ctx.metadata.get('_current_call_ctx', ctx), ctx being the defining
\* context, whose metadata is the caller's
ValueCallCtx == IF vp.callerCallCtx # 0 THEN vp.callerCallCtx ELSE 1

\* process_value makes value_ctx (context 2, its dest is the node, no document) with
\* a copy of the metadata; CallHandler.execute sets _current_call_ctx in the copy;
\* function() copies call_ctx as "context" says and the body starts
ValueCallEnter ==
    /\ pc = "valuecall"
    /\ vp.status = "ready"
    /\ LET cc == ValueCallCtx
           from == IF cc = 2 THEN 0 ELSE vp.ctxDest[cc]
           h == CASE vp.fn.context = "new" -> Append(vp.heap, ValueCallEmpty)
                  [] vp.fn.context = "shared" -> vp.heap
                  [] OTHER -> Append(vp.heap, vp.heap[from])
           d == IF vp.fn.context = "shared" THEN from ELSE Len(h)
       IN vp' = [vp EXCEPT !.status = "body", !.heap = h, !.valueCallCtx = 2,
                           !.ctxDest = <<1, 0, d>>, !.cur = d, !.bodyDest = d,
                           !.todo = vp.fn.body, !.start = h[d]]
    /\ ValueUnchanged

ValueCallRunning == pc = "valuecall" /\ vp.status \in {"body", "on_failure"} /\ vp.todo # <<>>

\* a set step of the body or of on_failure writes into the dest of its context
ValueCallSet ==
    /\ ValueCallRunning
    /\ Head(vp.todo).op = "set"
    /\ vp' = [vp EXCEPT !.heap[vp.cur][Head(vp.todo).key] = Head(vp.todo).value,
                        !.todo = Tail(vp.todo)]
    /\ ValueUnchanged

\* except Exception, on_failure is not None: on_failure runs in call_ctx.copy(),
\* which shares the dest of call_ctx
ValueCallOnFailure ==
    /\ ValueCallRunning
    /\ vp.status = "body"
    /\ Head(vp.todo).op = "raise"
    /\ vp.fn.hasFail
    /\ vp' = [vp EXCEPT !.status = "on_failure", !.cur = vp.ctxDest[ValueCallCtx],
                        !.todo = vp.fn.on_failure]
    /\ ValueUnchanged

\* the error leaves the call: from the body when there is no on_failure, or from
\* on_failure itself; the finally clause of CallHandler.execute drops _current_call_ctx
ValueCallRaise ==
    /\ ValueCallRunning
    /\ Head(vp.todo).op = "raise"
    /\ vp.status = "body" => ~vp.fn.hasFail
    /\ vp' = [vp EXCEPT !.status = "raised", !.todo = <<>>, !.valueCallCtx = 0]
    /\ ValueUnchanged

\* apply_to_context returns a deep copy of the dest the block ended with; the set
\* step of the caller writes it under /result, which is not one of the keys above
ValueCallReturn ==
    /\ pc = "valuecall"
    /\ vp.status \in {"body", "on_failure"}
    /\ vp.todo = <<>>
    /\ vp' = [vp EXCEPT !.status = "returned", !.out = vp.heap[vp.cur], !.valueCallCtx = 0]
    /\ ValueUnchanged

ValueCallNext == \/ ValueCallEnter
                 \/ ValueCallSet
                 \/ ValueCallOnFailure
                 \/ ValueCallRaise
                 \/ ValueCallReturn

ValueCallSpec == ValueCallInit /\ [][ValueCallNext]_vars

\* C29: with context copy, new or an unrecognised value, a function called as a value
\* leaves the caller's dest as it was before the call, whatever the body and on_failure
\* do, and with new the body starts from an empty dest
C29_ValueCallLeavesCallerDest ==
    (pc = "valuecall" /\ vp.fn.context # "shared" /\ vp.status # "ready")
        => /\ vp.heap[1] = vp.before
           /\ vp.fn.context = "new" => vp.start = ValueCallEmpty

-----------------------------------------------------------------------------
\* The language execution stack and the annotation of errors (Pipeline.run).
\* Three pipelines, the main one, the value one and a named one, each built with its
\* own track_execution; a handler may run the main pipeline again on a copy of its
\* context (same metadata) or evaluate a value through process_value (the value
\* pipeline, on a shallow copy of the metadata).

MaxFrames == 3

MaxSteps == 2

MaxCatches == 1

\* max_operations of the engine whose pipelines these are
MaxTraceOperations == 4

NoError == [kind |-> "none", has |-> FALSE, ann |-> <<>>, at |-> 0, count |-> 0, escaped |-> <<>>]

\* a new exception object: it has no _j_perm_lang_stack attribute
NewError(kind) == [NoError EXCEPT !.kind = kind]

\* a run of a pipeline: the steps left, whether a handler is executing, its lang_stack
\* (0 is None) and whether the handler has made its nested run
\* start keeps what the language execution stack held when the run began
PipelineFrame(pipe, meta, start) == [pipe |-> pipe, meta |-> meta, left |-> MaxSteps, in |-> FALSE,
                                     ls |-> 0, nested |-> FALSE, start |-> start]

\* the list under _LANG_EXEC_STACK_KEY in a metadata dict, empty when the key is absent
StackOf(v, meta) == IF v.metas[meta] = 0 THEN <<>> ELSE v.lists[v.metas[meta]]

NoRunLeft == [how |-> "none", pipe |-> "", start |-> <<>>, end |-> <<>>]

TraceInit == /\ Idle
             /\ pc = "trace"
             /\ \E tm \in BOOLEAN, tv \in BOOLEAN, tn \in BOOLEAN :
                   vp = [status |-> "running", track |-> [main |-> tm, value |-> tv, named |-> tn],
                         metas |-> <<0>>, lists |-> <<>>, counts |-> <<0>>, ran |-> 0,
                         frames |-> <<PipelineFrame("main", 1, <<>>)>>,
                         exc |-> NoError, catches |-> 0, last |-> NoRunLeft]

TraceRunning == pc = "trace" /\ vp.status = "running"

MaxOf(S) == CHOOSE x \in S : \A y \in S : y <= x

\* the top run ends: its context goes, and with it the metadata dicts and lists no
\* remaining context refers to; last keeps how the run ended and what the language
\* execution stack of its context held when it began and when it ended
LeaveRun(v) ==
    LET top == v.frames[Len(v.frames)]
        fs == SubSeq(v.frames, 1, Len(v.frames) - 1)
        ms == SubSeq(v.metas, 1, MaxOf({1} \cup {fs[i].meta : i \in 1..Len(fs)}))
        ll == SubSeq(v.lists, 1, MaxOf({0} \cup {ms[i] : i \in 1..Len(ms)}))
    IN [v EXCEPT !.frames = fs, !.metas = ms, !.lists = ll,
                 !.counts = SubSeq(v.counts, 1, Len(ms)),
                 !.last = [how |-> v.exc.kind, pipe |-> top.pipe, start |-> top.start,
                           end |-> StackOf(v, top.meta)],
                 !.status = IF fs = <<>> THEN (IF v.exc.kind = "none" THEN "done" ELSE "raised")
                            ELSE "running"]

TopFrame == vp.frames[Len(vp.frames)]

\* _repr_step(step): the step is known by the frame it belongs to and its position
ReprStep(f) == <<f.pipe, Len(vp.frames), f.left>>

\* the handler of the top frame is executing and no exception is in flight
InHandler == TraceRunning /\ TopFrame.in /\ vp.exc.kind = "none"

\* an exception is in flight in the handler of the top frame
Raising == TraceRunning /\ TopFrame.in /\ vp.exc.kind # "none"

\* line 722: ctx.metadata['_operation_count'] > max_ops, after the increment
OperationsExceeded(count) == count > MaxTraceOperations

\* lines 719-735: _operation_count of ctx.metadata is incremented and is within
\* max_operations; with track_execution the frame of the step is appended to
\* ctx.metadata.setdefault(_LANG_EXEC_STACK_KEY, []), otherwise lang_stack is None;
\* the handler starts (ran counts the handlers started since apply began)
TraceDispatch ==
    /\ TraceRunning
    /\ ~TopFrame.in
    /\ vp.exc.kind = "none"
    /\ TopFrame.left > 0
    /\ ~OperationsExceeded(vp.counts[TopFrame.meta] + 1)
    /\ LET n == Len(vp.frames)
           f == TopFrame
           had == vp.metas[f.meta]
           ls == IF had # 0 THEN had ELSE Len(vp.lists) + 1
           lists0 == IF had # 0 THEN vp.lists ELSE Append(vp.lists, <<>>)
       IN IF vp.track[f.pipe]
            THEN vp' = [vp EXCEPT !.counts[f.meta] = @ + 1, !.ran = @ + 1,
                                  !.metas[f.meta] = ls,
                                  !.lists = [lists0 EXCEPT ![ls] = Append(@, ReprStep(f))],
                                  !.frames[n].in = TRUE, !.frames[n].ls = ls,
                                  !.frames[n].nested = FALSE]
            ELSE vp' = [vp EXCEPT !.counts[f.meta] = @ + 1, !.ran = @ + 1,
                                  !.frames[n].in = TRUE, !.frames[n].ls = 0,
                                  !.frames[n].nested = FALSE]
    /\ ValueUnchanged

\* lines 719-725: the incremented counter exceeds max_operations; the RuntimeError
\* is raised before the try statement, so it leaves this run without passing its
\* except clauses
TraceLimitRaise ==
    /\ TraceRunning
    /\ ~TopFrame.in
    /\ vp.exc.kind = "none"
    /\ TopFrame.left > 0
    /\ OperationsExceeded(vp.counts[TopFrame.meta] + 1)
    /\ vp' = LeaveRun([vp EXCEPT !.counts[TopFrame.meta] = @ + 1, !.exc = NewError("plain")])
    /\ ValueUnchanged

\* the handler runs the main pipeline on a copy of its context: ctx.copy shares the
\* metadata (apply_to_context, as the bodies of if, foreach, while, try and functions)
TraceNestMain ==
    /\ InHandler
    /\ ~TopFrame.nested
    /\ Len(vp.frames) < MaxFrames
    /\ vp' = [vp EXCEPT !.frames = Append([vp.frames EXCEPT ![Len(vp.frames)].nested = TRUE],
                                          PipelineFrame("main", TopFrame.meta,
                                                        StackOf(vp, TopFrame.meta)))]
    /\ ValueUnchanged

\* the handler evaluates a value: process_value runs the value pipeline in value_ctx,
\* whose metadata is {**ctx.metadata, '_real_dest': ...}, a new dict with the same entries
TraceNestValue ==
    /\ InHandler
    /\ ~TopFrame.nested
    /\ Len(vp.frames) < MaxFrames
    /\ vp' = [vp EXCEPT !.metas = Append(vp.metas, vp.metas[TopFrame.meta]),
                        !.counts = Append(vp.counts, vp.counts[TopFrame.meta]),
                        !.frames = Append([vp.frames EXCEPT ![Len(vp.frames)].nested = TRUE],
                                          PipelineFrame("value", Len(vp.metas) + 1,
                                                        StackOf(vp, TopFrame.meta)))]
    /\ ValueUnchanged

\* the handler runs a named pipeline: run_pipeline makes a context whose metadata
\* holds the parent's language execution stack, when there is one, and nothing else
TraceNestNamed ==
    /\ InHandler
    /\ ~TopFrame.nested
    /\ Len(vp.frames) < MaxFrames
    /\ vp' = [vp EXCEPT !.metas = Append(vp.metas, vp.metas[TopFrame.meta]),
                        !.counts = Append(vp.counts, 0),
                        !.frames = Append([vp.frames EXCEPT ![Len(vp.frames)].nested = TRUE],
                                          PipelineFrame("named", Len(vp.metas) + 1,
                                                        StackOf(vp, TopFrame.meta)))]
    /\ ValueUnchanged

PopLangStackNever(lists, ls) == lists

\* the list of lang_stack without its last frame: lang_stack.pop() of the finally clause
PopLangStack(lists, ls) == IF ls = 0 THEN lists
                           ELSE [lists EXCEPT ![ls] = SubSeq(@, 1, Len(@) - 1)]

\* handler.execute returned: finally pops the frame of the step
TraceHandlerReturn ==
    /\ InHandler
    /\ LET n == Len(vp.frames)
       IN vp' = [vp EXCEPT !.lists = PopLangStack(vp.lists, TopFrame.ls),
                           !.frames[n].in = FALSE, !.frames[n].left = @ - 1]
    /\ ValueUnchanged

\* every step of the run is done: run returns into the handler that called it, or
\* apply returns
TraceRunReturn ==
    /\ TraceRunning
    /\ ~TopFrame.in
    /\ vp.exc.kind = "none"
    /\ TopFrame.left = 0
    /\ vp' = LeaveRun(vp)
    /\ ValueUnchanged

\* the handler raises a plain error of its own
TraceRaisePlain ==
    /\ InHandler
    /\ vp' = [vp EXCEPT !.exc = NewError("plain")]
    /\ ValueUnchanged

\* the handler raises a control-flow signal ($break, $continue, $return)
TraceRaiseSignal ==
    /\ InHandler
    /\ vp' = [vp EXCEPT !.exc = NewError("signal")]
    /\ ValueUnchanged

\* a handler of the value pipeline raises RawValueSignal
TraceRaiseRaw ==
    /\ InHandler
    /\ TopFrame.pipe = "value"
    /\ vp' = [vp EXCEPT !.exc = NewError("raw")]
    /\ ValueUnchanged

\* the handler catches an exception that came out of a run it made (try/except,
\* on_failure, a loop catching its signal) and goes on
TraceCatch ==
    /\ Raising
    /\ vp.exc.escaped # <<>> \/ vp.exc.kind = "signal"
    /\ vp.catches < MaxCatches
    /\ vp' = [vp EXCEPT !.exc = NoError, !.catches = @ + 1]
    /\ ValueUnchanged

AnnotatesAgain(ls, e) == ls # 0

\* line 744: lang_stack is not None and not hasattr(e, '_j_perm_lang_stack')
Annotates(ls, e) == ls # 0 /\ ~e.has

\* lines 739-749: the exception leaves handler.execute. RawValueSignal.handle and
\* the clause for control-flow signals raise the signal again as it is; a plain error
\* is given list(lang_stack) when Annotates; finally pops the frame of the step; the
\* exception leaves the run, and process_value, which made the run of the value
\* pipeline, catches a RawValueSignal (core.py 1100-1102)
TraceEscape ==
    /\ Raising
    /\ LET n == Len(vp.frames)
           ls == TopFrame.ls
           e == vp.exc
           now == IF ls = 0 THEN <<>> ELSE vp.lists[ls]
           e1 == IF e.kind = "plain" /\ Annotates(ls, e)
                   THEN [e EXCEPT !.has = TRUE, !.ann = now, !.at = n, !.count = @ + 1]
                   ELSE e
           e2 == [e1 EXCEPT !.escaped = Append(@, [depth |-> n, track |-> ls # 0, stack |-> now])]
           left == LeaveRun([vp EXCEPT !.exc = e2, !.lists = PopLangStack(vp.lists, ls)])
       IN vp' = IF e.kind = "raw" THEN [left EXCEPT !.exc = NoError, !.status = "running"] ELSE left
    /\ ValueUnchanged

TraceNext == \/ TraceDispatch
             \/ TraceLimitRaise
             \/ TraceNestMain
             \/ TraceNestValue
             \/ TraceNestNamed
             \/ TraceHandlerReturn
             \/ TraceRunReturn
             \/ TraceRaisePlain
             \/ TraceRaiseSignal
             \/ TraceRaiseRaw
             \/ TraceCatch
             \/ TraceEscape

TraceSpec == TraceInit /\ [][TraceNext]_vars

\* the frames of pipelines with track_execution among those whose handler the
\* exception has left, innermost first
TrackedEscapes == SelectSeq(vp.exc.escaped, LAMBDA x : x.track)

C31_LangStackBalanced ==
    (pc = "trace" /\ vp.last.how # "none") => vp.last.end = vp.last.start

\* a run of the named pipeline sharing its caller's one-frame stack was left by a
\* plain error after its handler had pushed a second frame
C31_Witness ==
    /\ pc = "trace"
    /\ vp.last.how = "plain"
    /\ vp.last.pipe = "named"
    /\ Len(vp.last.start) = 1
    /\ vp.exc.has
    /\ Len(vp.exc.ann) = 2
    /\ vp.last.end = vp.last.start

\* C32: every handler started since apply began, in whatever context, is counted in
\* the operation counter of the context of the apply, so no more than max_operations
\* handlers start
C32_ChildExecutionsCounted ==
    pc = "trace" => /\ vp.ran <= vp.counts[1]
                    /\ vp.ran <= MaxTraceOperations

\* C34: when a $func call has finished, by returning, by a plain error (the
\* depth-exceeded error included) or by a control-flow signal, the function call
\* stack has the length it had before the call and _current_call_ctx in the
\* caller's metadata has the value it had before the call (0: absent)
C34_CallRestoresStackAndMarker ==
    ev.t = "call_exit" => /\ Len(callStacks[ev.cs]) = ev.before.depth
                          /\ metas[ctxs[ev.ctx].meta].callctx = ev.before.callctx

\* a nested call made at the depth limit was refused: the stack is back at the
\* limit and the marker still names the context of the enclosing call
C34_Witness ==
    /\ ev.t = "call_exit"
    /\ ev.out = RecursionDepthError
    /\ ev.before.depth = MaxFunctionRecursionDepth
    /\ ev.before.callctx # 0
    /\ Len(callStacks[ev.cs]) = MaxFunctionRecursionDepth

-----------------------------------------------------------------------------
\* The depth of a chain of nested $func calls (CallHandler.execute), each call made
\* either as a step of the enclosing body or as a value inside it. Every function is
\* defined in the context of the apply, so every body runs in a copy of a context
\* whose metadata is the dict of the apply; a call made as a value gets value_ctx,
\* whose metadata is a copy of that dict made by process_value.

MaxChain == MaxFunctionRecursionDepth + 2

\* the ways of calling along a chain, outermost first
Chains == UNION { [1..n -> {"step", "value"}] : n \in 1..MaxChain }

\* shared: the list under _function_call_stack in the metadata of the apply, when the
\* key is there (hasShared); own: for each call under way, the list it appended to
\* when that was a new list kept only in its copy of the metadata, else <<>>
DepthInit == /\ Idle
             /\ pc = "depth"
             /\ \E chain \in Chains, warm \in BOOLEAN :
                   vp = [status |-> "running", chain |-> chain, calls |-> <<>>,
                         hasShared |-> warm, shared |-> <<>>, exc |-> "none"]

DepthRunning == pc = "depth" /\ vp.status = "running"

\* the next call of the chain, made from the innermost body
NextCall == vp.chain[Len(vp.calls) + 1]

\* call_stack = ctx.metadata.get('_function_call_stack', []) and, after the append,
\* ctx.metadata['_function_call_stack'] = call_stack: the list of the apply's metadata
\* when the key is there (a copy of the dict holds the same list); otherwise a new
\* list, which a call made as a step stores in the metadata of the apply and a call
\* made as a value stores in its copy only
UsesShared == vp.hasShared \/ NextCall = "step"

\* lines 116-126 and 141-143: the name is appended, the list is stored in ctx.metadata
\* (the copy, for a call made as a value); the depth is within the limit and the body
\* starts
DepthEnter ==
    /\ DepthRunning
    /\ vp.exc = "none"
    /\ Len(vp.calls) < Len(vp.chain)
    /\ LET n == Len(vp.calls) + 1
           list == IF UsesShared THEN Append(vp.shared, n) ELSE <<n>>
       IN /\ ~DepthExceeded(Len(list))
          /\ vp' = [vp EXCEPT !.calls = Append(@, [how |-> NextCall, shared |-> UsesShared,
                                                   own |-> IF UsesShared THEN <<>> ELSE list]),
                              !.shared = IF UsesShared THEN list ELSE @,
                              !.hasShared = @ \/ NextCall = "step"]
    /\ ValueUnchanged

\* the depth exceeds the limit: RecursionError, and finally pops the name
DepthRefuse ==
    /\ DepthRunning
    /\ vp.exc = "none"
    /\ Len(vp.calls) < Len(vp.chain)
    /\ LET n == Len(vp.calls) + 1
           list == IF UsesShared THEN Append(vp.shared, n) ELSE <<n>>
       IN /\ DepthExceeded(Len(list))
          /\ vp' = [vp EXCEPT !.exc = "RecursionError",
                              !.hasShared = @ \/ NextCall = "step",
                              !.status = IF vp.calls = <<>> THEN "raised" ELSE @]
    /\ ValueUnchanged

\* the innermost body is done, or the error passes through it: the call ends and
\* finally pops its name (a body that was left makes no further call)
DepthLeave ==
    /\ DepthRunning
    /\ vp.calls # <<>>
    /\ vp.exc # "none" \/ Len(vp.calls) = Len(vp.chain)
    /\ LET top == vp.calls[Len(vp.calls)]
       IN vp' = [vp EXCEPT !.calls = SubSeq(@, 1, Len(@) - 1),
                           !.shared = IF top.shared THEN SubSeq(@, 1, Len(@) - 1) ELSE @,
                           !.chain = IF vp.exc = "none" THEN SubSeq(@, 1, Len(vp.calls) - 1) ELSE @,
                           !.status = IF Len(vp.calls) = 1
                                        THEN (IF vp.exc = "none" THEN "done" ELSE "raised")
                                        ELSE @]
    /\ ValueUnchanged

DepthNext == \/ DepthEnter
             \/ DepthRefuse
             \/ DepthLeave

DepthSpec == DepthInit /\ [][DepthNext]_vars

\* C33: the $func calls under way, however they were made, are never more than
\* max_function_recursion_depth
C33_ChainDeeperThanLimitRaises ==
    pc = "depth" => Len(vp.calls) <= MaxFunctionRecursionDepth

\* C35: when a control-flow signal has passed through an if, the dest of the context
\* is the dest the chosen branch had made when the signal was raised: the if has not
\* put the snapshot back
C35_SignalThroughIfKeepsDest ==
    (ev.t = "unwind" /\ ev.handler = "if" /\ IsControlFlowSignal(ev.exc)) => ev.after = ev.body

\* C36: no handler runs before every stage has expanded the batch; the handlers run
\* on the steps of the expanded list in its order, each given the dest the steps
\* before it have made; and once a handler has raised a plain error no further step
\* of the list is handed to a handler
C36_StepsRunInExpandedOrder ==
    pc = "shorthand" =>
        /\ vp.ran # <<>> => (vp.status # "stages" /\ vp.stages = <<>>)
        /\ vp.status # "stages" =>
              /\ Len(vp.ran) <= Len(vp.expanded)
              /\ \A i \in DOMAIN vp.ran : /\ vp.ran[i] = vp.expanded[i]
                                          /\ vp.saw[i] = SubSeq(vp.expanded, 1, i - 1)
        /\ vp.status = "raised" => Len(vp.ran) = vp.failed

\* a list that the stages expanded to at least three steps: the second handler raised
\* after the first had run, and the third step was never handed to a handler
C36_Witness ==
    /\ pc = "shorthand"
    /\ vp.status = "raised"
    /\ vp.failed = 2
    /\ Len(vp.expanded) >= 3
    /\ Len(vp.expanded) > Len(vp.spec)
    /\ vp.saw[2] = <<vp.expanded[1]>>

(***************************************************************************)
(* The _real_dest record: process_value gives every value context a copy   *)
(* of the metadata of its caller with the record in it, $eval takes the    *)
(* record out of the metadata of the value context it runs in and puts it  *)
(* back when its nested spec is over.  A context is a frame: the operation *)
(* of the apply ("op"), a value context ("value") or the context of an     *)
(* $eval ("eval"), whose operations run on it.                             *)
(***************************************************************************)
MaxNesting == 4

\* the dest documents of the apply: dest is any value, null included
RealDests == {NoneV, DictV(<<>>, <<>>), DictV(<<StrV(<<"a">>)>>, <<IntV(1)>>)}

\* the values a resolution is on: the node being resolved, or what a pass made of it
Intermediates == {DictV(<<StrV(<<"s", "e", "l">>)>>, <<StrV(<<"h", "i", "t">>)>>), StrV(<<"@", ":", "/", "a">>)}

\* metadata without the key '_real_dest', and with it
NoRecord == [has |-> FALSE, real |-> NoneV]
Recorded(d) == [has |-> TRUE, real |-> d]

\* ctx.metadata.get('_real_dest', ctx.dest)
MetadataGet(meta, dest) == IF meta.has THEN meta.real ELSE dest

\* a context: its dest, the metadata dict it holds, and for an $eval the local
\* old_real_dest and the dest of the context that called it
ValueFrame(kind, dest, meta, old, caller) ==
    [kind |-> kind, dest |-> dest, meta |-> meta, old |-> old, caller |-> caller]

NoRead == [how |-> "none", got |-> NoneV, started |-> NoneV, current |-> NoneV]
NoEval == [how |-> "none", before |-> NoRecord, after |-> NoRecord, dest |-> NoneV, was |-> NoneV]

\* Engine.apply: the context of the operation, its metadata without the record
RealDestInit == /\ Idle
                /\ pc = "realdest"
                /\ \E d \in RealDests :
                      vp = [status |-> "running",
                            frames |-> <<ValueFrame("op", d, 1, NoRecord, NoneV)>>,
                            metas |-> <<NoRecord>>, read |-> NoRead, last |-> NoEval]

RealDestRunning == pc = "realdest" /\ vp.status = "running"

RealDestTop == vp.frames[Len(vp.frames)]

\* the dest of the operation a resolution was started by: the nearest context
\* under the value contexts that is not a value context
RECURSIVE StartedBy(_, _)
StartedBy(frames, i) == IF frames[i].kind # "value" THEN frames[i].dest ELSE StartedBy(frames, i - 1)

\* process_value, the first pass: metadata_with_dest = {**ctx.metadata, '_real_dest':
\* ctx.metadata.get('_real_dest', ctx.dest)}; value_ctx = ctx.copy(new_dest=current,
\* new_metadata=metadata_with_dest)
RealDestProcessValue ==
    /\ RealDestRunning
    /\ Len(vp.frames) < MaxNesting
    /\ \E v \in Intermediates :
          vp' = [vp EXCEPT !.frames = Append(@, ValueFrame("value", v, Len(vp.metas) + 1, NoRecord, NoneV)),
                           !.metas = Append(@, Recorded(MetadataGet(vp.metas[RealDestTop.meta], RealDestTop.dest)))]
    /\ ValueUnchanged

\* process_value, another pass: current = value_ctx.dest, and the value context of the
\* pass is made from the caller's context again
RealDestPass ==
    /\ RealDestRunning
    /\ RealDestTop.kind = "value"
    /\ LET below == vp.frames[Len(vp.frames) - 1]
       IN \E v \in Intermediates \ {RealDestTop.dest} :
             vp' = [vp EXCEPT !.frames[Len(vp.frames)].dest = v,
                              !.metas[RealDestTop.meta] = Recorded(MetadataGet(vp.metas[below.meta], below.dest))]
    /\ ValueUnchanged

\* PointerProcessor.resolve of a pointer with prefix @: in a value context
RealDestResolve ==
    /\ RealDestRunning
    /\ RealDestTop.kind = "value"
    /\ vp' = [vp EXCEPT !.read = [how |-> "read",
                                  got |-> MetadataGet(vp.metas[RealDestTop.meta], RealDestTop.dest),
                                  started |-> StartedBy(vp.frames, Len(vp.frames)),
                                  current |-> RealDestTop.dest]]
    /\ ValueUnchanged

\* process_value returns to the handler that called it
RealDestReturn ==
    /\ RealDestRunning
    /\ RealDestTop.kind = "value"
    /\ vp' = [vp EXCEPT !.frames = SubSeq(@, 1, Len(@) - 1), !.metas = SubSeq(@, 1, Len(@) - 1)]
    /\ ValueUnchanged

\* eval_handler up to the nested spec: eval_ctx = ctx.copy(new_dest={}, deepcopy_dest=False)
\* holds the metadata dict of ctx; old_real_dest = eval_ctx.metadata.pop('_real_dest', None)
RealDestEvalEnter ==
    /\ RealDestRunning
    /\ RealDestTop.kind = "value"
    /\ Len(vp.frames) < MaxNesting
    /\ vp' = [vp EXCEPT !.frames = Append(@, ValueFrame("eval", DictV(<<>>, <<>>), RealDestTop.meta,
                                                        vp.metas[RealDestTop.meta], RealDestTop.dest)),
                        !.metas[RealDestTop.meta] = NoRecord]
    /\ ValueUnchanged

\* an operation of the nested spec writes into the dest of the $eval
RealDestEvalSet ==
    /\ RealDestRunning
    /\ RealDestTop.kind = "eval"
    /\ \E n \in 1..2 :
          /\ RealDestTop.dest # DictV(<<StrV(<<"y">>)>>, <<IntV(n)>>)
          /\ vp' = [vp EXCEPT !.frames[Len(vp.frames)].dest = DictSet(@, StrV(<<"y">>), IntV(n))]
    /\ ValueUnchanged

\* finally: if old_real_dest is not None: eval_ctx.metadata['_real_dest'] = old_real_dest;
\* pop gave None for a missing key and for a record that is None
RestoreRealDest(metas_, f) ==
    IF f.old.has /\ f.old.real # NoneV THEN [metas_ EXCEPT ![f.meta] = f.old] ELSE metas_

\* the $eval is left, by return or by an exception: its caller has the metadata back
LeaveEval(how) ==
    LET f == RealDestTop
        restored == RestoreRealDest(vp.metas, f)
    IN [vp EXCEPT !.frames = SubSeq(@, 1, Len(@) - 1),
                  !.metas = restored,
                  !.last = [how |-> how, before |-> f.old, after |-> restored[f.meta],
                            dest |-> vp.frames[Len(vp.frames) - 1].dest, was |-> f.caller]]

\* apply_to_context returned: the finally clause, then the result
RealDestEvalReturn ==
    /\ RealDestRunning
    /\ RealDestTop.kind = "eval"
    /\ vp' = LeaveEval("return")
    /\ ValueUnchanged

\* an operation of the nested spec raises
RealDestEvalRaise ==
    /\ RealDestRunning
    /\ RealDestTop.kind = "eval"
    /\ vp' = [vp EXCEPT !.status = "raising"]
    /\ ValueUnchanged

\* the exception leaves a context: the finally clause of an $eval, nothing for a
\* value context; at the operation of the apply it leaves the apply
RealDestUnwind ==
    /\ pc = "realdest"
    /\ vp.status = "raising"
    /\ vp' = IF RealDestTop.kind = "eval" THEN LeaveEval("raise")
             ELSE IF RealDestTop.kind = "value"
                  THEN [vp EXCEPT !.frames = SubSeq(@, 1, Len(@) - 1), !.metas = SubSeq(@, 1, Len(@) - 1)]
             ELSE [vp EXCEPT !.status = "failed"]
    /\ ValueUnchanged

RealDestNext == \/ RealDestProcessValue
                \/ RealDestPass
                \/ RealDestResolve
                \/ RealDestReturn
                \/ RealDestEvalEnter
                \/ RealDestEvalSet
                \/ RealDestEvalReturn
                \/ RealDestEvalRaise
                \/ RealDestUnwind

RealDestSpec == RealDestInit /\ [][RealDestNext]_vars

\* C37: a pointer with prefix @: resolved in a value context, at any nesting depth,
\* reads the dest of the operation that started the resolution
C37_DestPointerReadsRealDest ==
    (pc = "realdest" /\ vp.read.how = "read") => vp.read.got = vp.read.started

\* C38: when an $eval is over, by return or by an exception, the dest of its caller is
\* the one it was and the _real_dest record of its caller is the one it was
C38_EvalLeavesRecordAndDest ==
    (pc = "realdest" /\ vp.last.how # "none") =>
        /\ vp.last.after = vp.last.before
        /\ vp.last.dest = vp.last.was

(***************************************************************************)
(* The shorthand stages on the steps as they are written: a step is a dict *)
(* whose keys are strings, and the stages look at the characters of the    *)
(* keys and of the values.                                                 *)
(***************************************************************************)
OpName == StrV(<<"o", "p">>)
SetOpName == StrV(<<"s", "e", "t">>)
PathName == StrV(<<"p", "a", "t", "h">>)
ValueName == StrV(<<"v", "a", "l", "u", "e">>)
FromName == StrV(<<"f", "r", "o", "m">>)
IgnoreMissingName == StrV(<<"i", "g", "n", "o", "r", "e", "_", "m", "i", "s", "s", "i", "n", "g">>)
EqualsName == StrV(<<"e", "q", "u", "a", "l", "s">>)
CopyOpName == StrV(<<"c", "o", "p", "y">>)
DeleteOpName == StrV(<<"d", "e", "l", "e", "t", "e">>)
AssertOpName == StrV(<<"a", "s", "s", "e", "r", "t">>)
AssertDOpName == StrV(<<"a", "s", "s", "e", "r", "t", "D">>)
TildeAssert == StrV(<<"~", "a", "s", "s", "e", "r", "t">>)
TildeAssertD == StrV(<<"~", "a", "s", "s", "e", "r", "t", "D">>)
TildeDelete == StrV(<<"~", "d", "e", "l", "e", "t", "e">>)
DefKey == StrV(<<"$", "d", "e", "f">>)
FuncKey == StrV(<<"$", "f", "u", "n", "c">>)
RaiseKey == StrV(<<"$", "r", "a", "i", "s", "e">>)
ReturnKey == StrV(<<"$", "r", "e", "t", "u", "r", "n">>)
BreakKey == StrV(<<"$", "b", "r", "e", "a", "k">>)
ContinueKey == StrV(<<"$", "c", "o", "n", "t", "i", "n", "u", "e">>)

\* the entries of a dict in the order of the dict
Items(d) == [j \in DOMAIN d.keys |-> [key |-> d.keys[j], value |-> d.items[j]]]

\* the dict of a list of entries
DictOf(entries) == DictV([j \in DOMAIN entries |-> entries[j].key], [j \in DOMAIN entries |-> entries[j].value])

\* isinstance(step, Mapping) and "op" not in step
IsOplessMapping(step) == step.t = "dict" /\ ~HasKey(step, OpName)

\* key.endswith("[]")
EndsWith(str, suffix) == Len(str) >= Len(suffix) /\ SubSeq(str, Len(str) - Len(suffix) + 1, Len(str)) = suffix

\* AssertShorthandProcessor.apply on one entry: a mapping gives one assert with equals per
\* entry, a list one assert per item, a scalar one assert
AssertOps(entry) ==
    LET op == IF entry.key = TildeAssertD THEN AssertDOpName ELSE AssertOpName
    IN  IF entry.value.t = "dict"
        THEN [j \in DOMAIN entry.value.keys |->
                 DictV(<<OpName, PathName, EqualsName>>, <<op, entry.value.keys[j], entry.value.items[j]>>)]
        ELSE LET paths == IF entry.value.t = "list" THEN entry.value.items ELSE <<entry.value>>
             IN  [j \in DOMAIN paths |-> DictV(<<OpName, PathName>>, <<op, paths[j]>>)]

\* DeleteShorthandProcessor.apply on one entry: one delete per path
DeleteOps(entry) ==
    LET paths == IF entry.value.t = "list" THEN entry.value.items ELSE <<entry.value>>
    IN  [j \in DOMAIN paths |-> DictV(<<OpName, PathName>>, <<DeleteOpName, paths[j]>>)]

IsAssertEntry(entry) == entry.key \in {TildeAssert, TildeAssertD}
IsDeleteEntry(entry) == entry.key = TildeDelete
NotAssertEntry(entry) == ~IsAssertEntry(entry)
NotDeleteEntry(entry) == ~IsDeleteEntry(entry)

\* out.extend(expanded); if remaining: out.append(remaining)
Extracted(expanded, remaining) == expanded \o (IF remaining = <<>> THEN <<>> ELSE <<DictOf(remaining)>>)

\* AssertShorthandProcessor.apply on the steps as written
assert_apply(steps) ==
    Flatten([k \in DOMAIN steps |->
                IF IsOplessMapping(steps[k])
                THEN LET mine == SelectSeq(Items(steps[k]), IsAssertEntry)
                     IN  Extracted(Flatten([j \in DOMAIN mine |-> AssertOps(mine[j])]),
                                   SelectSeq(Items(steps[k]), NotAssertEntry))
                ELSE <<steps[k]>>])

\* DeleteShorthandProcessor.apply on the steps as written
delete_apply(steps) ==
    Flatten([k \in DOMAIN steps |->
                IF IsOplessMapping(steps[k])
                THEN LET mine == SelectSeq(Items(steps[k]), IsDeleteEntry)
                     IN  Extracted(Flatten([j \in DOMAIN mine |-> DeleteOps(mine[j])]),
                                   SelectSeq(Items(steps[k]), NotDeleteEntry))
                ELSE <<steps[k]>>])

\* the loop body of AssignShorthandProcessor.apply: append = key.endswith("[]");
\* dst = key[:-2] + "/-" if append else key; a str value with value.startswith("/") is
\* copied with ignore_missing, any other value is set
AssignEntry(entry) ==
    LET key == entry.key.s
        dst == IF EndsWith(key, <<"[", "]">>) THEN StrV(SubSeq(key, 1, Len(key) - 2) \o <<"/", "-">>) ELSE entry.key
    IN  IF entry.value.t = "str" /\ StartsWith(entry.value.s, <<"/">>)
        THEN DictV(<<OpName, FromName, PathName, IgnoreMissingName>>, <<CopyOpName, entry.value, dst, BoolV(TRUE)>>)
        ELSE DictV(<<OpName, PathName, ValueName>>, <<SetOpName, dst, entry.value>>)

\* AssignShorthandProcessor.apply on the steps as written: every mapping without "op"
\* is replaced by the steps of its entries, an empty one by nothing
assign_apply(steps) ==
    Flatten([k \in DOMAIN steps |->
                IF IsOplessMapping(steps[k])
                THEN [j \in DOMAIN steps[k].keys |-> AssignEntry(Items(steps[k])[j])]
                ELSE <<steps[k]>>])

\* the matchers: any(isinstance(s, Mapping) and "op" not in s and <key> in s for s in steps)
assert_matches(steps) ==
    \E k \in DOMAIN steps : IsOplessMapping(steps[k]) /\ (HasKey(steps[k], TildeAssert) \/ HasKey(steps[k], TildeAssertD))
delete_matches(steps) == \E k \in DOMAIN steps : IsOplessMapping(steps[k]) /\ HasKey(steps[k], TildeDelete)
assign_matches(steps) == \E k \in DOMAIN steps : IsOplessMapping(steps[k])

WrittenMatches(name, steps) ==
    IF name = "assert_shorthand" THEN assert_matches(steps)
    ELSE IF name = "delete_shorthand" THEN delete_matches(steps)
    ELSE assign_matches(steps)

WrittenApplied(name, steps) ==
    IF name = "assert_shorthand" THEN assert_apply(steps)
    ELSE IF name = "delete_shorthand" THEN delete_apply(steps)
    ELSE assign_apply(steps)

\* the keys of the control-flow and function steps
ControlKeys == {DefKey, FuncKey, RaiseKey, ReturnKey, BreakKey, ContinueKey}

\* the keys of the assignments: a pointer, and a pointer to append to
PointerKeys == {StrV(<<"/", "a">>), StrV(<<"/", "b", "[", "]">>)}

PtrX == StrV(<<"/", "x">>)

\* the values of an assignment: pointers with and without prefix, and literals
AssignValues == {PtrX, StrV(<<"@", ":", "/", "x">>), StrV(<<"&", ":", "/", "x">>), StrV(<<"!", ":", "/", "x">>),
                 StrV(<<"_", ":", "/", "x">>), StrV(<<"x">>), IntV(1), NoneV}

\* the entries a step can be written with
WrittenEntries ==
    { [key |-> k, value |-> v] : k \in PointerKeys, v \in AssignValues }
    \cup { [key |-> k, value |-> v] : k \in ControlKeys, v \in {NoneV, StrV(<<"f">>)} }
    \cup { [key |-> k, value |-> v] : k \in {TildeAssert, TildeAssertD},
                                      v \in {PtrX, ListV(<<>>), DictV(<<PtrX>>, <<IntV(1)>>)} }
    \cup { [key |-> TildeDelete, value |-> v] : v \in {PtrX, ListV(<<>>), ListV(<<PtrX, StrV(<<"/", "y">>)>>)} }

MaxEntries == 2

\* a step with "op", and the mappings without "op" of up to MaxEntries entries
WrittenSteps ==
    { DictV(<<OpName, PathName, ValueName>>, <<SetOpName, StrV(<<"/", "a">>), StrV(<<"@", ":", "/", "x">>)>>) }
    \cup { DictOf(e) : e \in { x \in UNION { [1..m -> WrittenEntries] : m \in 0..MaxEntries } :
                                 \A j, k \in DOMAIN x : x[j].key = x[k].key => j = k } }

OpSteps == {s \in WrittenSteps : ~IsOplessMapping(s)}

\* steps = spec if isinstance(spec, list) else [spec]: one step, or a step before a
\* step with "op"
WrittenInit ==
    /\ Idle
    /\ pc = "written"
    /\ vp \in { [status |-> "stages", spec |-> sp, steps |-> sp, stages |-> SortDesc(DefaultShorthandStages)] :
                  sp \in { <<a>> : a \in WrittenSteps } \cup { <<a, b>> : a \in WrittenSteps, b \in OpSteps } }

InWritten == pc = "written" /\ vp.status = "stages" /\ vp.stages # <<>>

\* StageRegistry.run_all: the matcher of the next stage does not fire
WrittenSkip == /\ InWritten
               /\ ~WrittenMatches(Head(vp.stages).name, vp.steps)
               /\ vp' = [vp EXCEPT !.stages = Tail(@)]
               /\ ValueUnchanged

\* StageRegistry.run_all: steps = node.processor.apply(steps, ctx)
WrittenApply == /\ InWritten
                /\ WrittenMatches(Head(vp.stages).name, vp.steps)
                /\ vp' = [vp EXCEPT !.stages = Tail(@), !.steps = WrittenApplied(Head(vp.stages).name, @)]
                /\ ValueUnchanged

\* run_all returns the steps
WrittenDone == /\ pc = "written"
               /\ vp.status = "stages"
               /\ vp.stages = <<>>
               /\ vp' = [vp EXCEPT !.status = "done"]
               /\ ValueUnchanged

WrittenNext == \/ WrittenSkip
               \/ WrittenApply
               \/ WrittenDone

WrittenSpec == WrittenInit /\ [][WrittenNext]_vars

HasControlKey(step) == IsOplessMapping(step) /\ \E k \in ControlKeys : HasKey(step, k)

\* a step made by the assign stage
IsAssignStep(step) == HasKey(step, OpName) /\ DictGet(step, OpName) \in {SetOpName, CopyOpName}

IsAssignment(entry) == ~IsAssertEntry(entry) /\ ~IsDeleteEntry(entry)

\* the prefixes that make a string value a pointer
PointerPrefixes == {<<"/">>, <<"@", ":", "/">>, <<"&", ":", "/">>, <<"!", ":", "/">>, <<"_", ":", "/">>}

\* the step of an entry: a copy of a string value that starts with one of the prefixes,
\* a set of any other value, on the append path when the key ends in []
StepOfEntry(entry) ==
    LET key == entry.key.s
        dst == IF EndsWith(key, <<"[", "]">>) THEN StrV(SubSeq(key, 1, Len(key) - 2) \o <<"/", "-">>) ELSE entry.key
    IN  IF entry.value.t = "str" /\ \E p \in PointerPrefixes : StartsWith(entry.value.s, p)
        THEN DictV(<<OpName, FromName, PathName, IgnoreMissingName>>, <<CopyOpName, entry.value, dst, BoolV(TRUE)>>)
        ELSE DictV(<<OpName, PathName, ValueName>>, <<SetOpName, dst, entry.value>>)

\* C39: the set and copy steps the stages make of an object without "op" are the steps
\* of its pointer-keyed entries, in order: a copy of a string value starting with /, @:/,
\* &:/, !:/ or _:/, a set of any other value, on the path ending in /- for a key ending
\* in []; an object without such entries gives none
C39_AssignShorthandRewritesEntries ==
    (pc = "written" /\ vp.status = "done" /\ Len(vp.spec) = 1
        /\ IsOplessMapping(vp.spec[1]) /\ ~HasControlKey(vp.spec[1])) =>
        LET entries == SelectSeq(Items(vp.spec[1]), IsAssignment)
        IN  SelectSeq(vp.steps, IsAssignStep) = [j \in DOMAIN entries |-> StepOfEntry(entries[j])]

\* C40: an object without "op" that has one of the keys $def, $func, $raise, $return,
\* $break, $continue comes out of the shorthand stages as it was written
C40_ControlStepsLeftUnchanged ==
    (pc = "written" /\ vp.status = "done" /\ HasControlKey(vp.spec[1])) => vp.steps = vp.spec

====
